---------------------------- MODULE Spec2Model ----------------------------
(***************************************************************************)
(* A model of the AITrendTracker batch pipeline: the domain failure        *)
(* tracker, the connector's row parsing and in-memory deduplication, the   *)
(* validator/processor, the keyword fallback classifier and run_batch with *)
(* the durable store.                                                      *)
(*                                                                         *)
(* Strings whose content the code inspects (domains, titles, article text  *)
(* handed to the classifier) are sequences of one-character strings, so    *)
(* that lower(), strip(), startswith(), split('.') and the substring test  *)
(* `term in text` are computed as Python computes them. In run_batch the   *)
(* text of an article is represented by its length, the only property of   *)
(* it that the connector and the validator read.                           *)
(***************************************************************************)
EXTENDS Integers, Sequences, FiniteSets, TLC

VARIABLES
    tracker,        \* fetcher._domain_failure_tracker (DomainFailureTracker)
    markCalls,      \* ghost: number of mark_domain_failed calls per domain
    candidates,     \* the list handed to _remove_duplicate_articles
    keptIdx,        \* positions of `candidates` that survive, in order
    clsInput,       \* the (text, title) handed to classify_article
    clsResult,      \* the AITopicResult it returned
    callState,      \* "input" before the function under study ran, "done" after
    pc,             \* position of run_batch: "idle", a stage, "returned", "raised"
    batch,          \* number of run_batch invocations started
    dbInstance,     \* database._db_instance is not None
    db,             \* the SQLite store: processed, rejected, pipeline_runs
    min_article_length, \* config.min_article_length
    indexSize,      \* number of cnn.com stories the news index lists
    run_id,         \* run_batch's run_id
    stats,          \* run_batch's stats dictionary
    fetch,          \* locals of the connector's domain and row loops
    articles,       \* run_batch's articles (the connector's result)
    processed_articles, \* run_batch's processed_articles
    rejected_articles,  \* run_batch's rejected_articles
    extractLog,     \* ghost: the _extract_text_advanced calls of the fetch under way
    knownAtStart,   \* ghost: URLs the store held when this batch began
    completeCalls,  \* ghost: complete_pipeline_run calls of this batch
    run_row,        \* the count columns of the pipeline_runs row of this run
    storeFault,     \* ghost: a write of this batch's STORING stage failed
    openai_client,  \* classifier.openai_client is not None
    anthropic_client,   \* classifier.anthropic_client is not None
    to_classify,    \* the articles handed to classify_articles_ai_topics
    classified_articles, \* its classified_articles, with what happened to each
    proc_article,   \* the article handed to process_article
    proc_results,   \* what successive calls of process_article returned
    scheduler,      \* NewsScheduler.running and the jobs of the schedule module
    threads,        \* where the caller's, the scheduler's and the job threads are
    pid_file,       \* the pid written in storage_dir/pipeline.pid, 0 without the file
    running_pids,   \* the pids of the pipeline subprocesses that are alive
    spawned,        \* number of subprocesses the dashboard has spawned so far
    sessions        \* each dashboard session: where it is, what it shows, its pid

trackerVars == <<tracker, markCalls>>
dedupVars == <<candidates, keptIdx>>
clsVars == <<clsInput, clsResult>>
extVars == <<openai_client, anthropic_client, to_classify, classified_articles>>
procVars == <<proc_article, proc_results>>
schedVars == <<scheduler, threads>>
dashVars == <<pid_file, running_pids, spawned, sessions>>

\* the variables of the functions studied apart from run_batch
sideVars == <<extVars, procVars, schedVars, dashVars>>

pipeVars == <<pc, batch, dbInstance, db, min_article_length, indexSize, run_id,
              stats, fetch, articles, processed_articles, rejected_articles,
              extractLog, knownAtStart, completeCalls, storeFault,
              run_row>>

vars == <<tracker, markCalls, candidates, keptIdx, clsInput, clsResult, callState,
          pc, batch, dbInstance, db, min_article_length, indexSize, run_id,
          stats, fetch, articles, processed_articles, rejected_articles,
          extractLog, knownAtStart, completeCalls, storeFault, run_row,
          openai_client, anthropic_client, to_classify, classified_articles,
          proc_article, proc_results, scheduler, threads,
          pid_file, running_pids, spawned, sessions>>

-----------------------------------------------------------------------------
(* Python str operations on sequences of characters                        *)

UpperChars == <<"A", "B", "C", "D", "E", "F", "G", "H", "I", "J", "K", "L", "M",
                "N", "O", "P", "Q", "R", "S", "T", "U", "V", "W", "X", "Y", "Z">>

LowerChars == <<"a", "b", "c", "d", "e", "f", "g", "h", "i", "j", "k", "l", "m",
                "n", "o", "p", "q", "r", "s", "t", "u", "v", "w", "x", "y", "z">>

WhitespaceChars == {" ", "\t", "\n", "\r"}

LowerChar(c) ==
    IF \E i \in 1..Len(UpperChars) : UpperChars[i] = c
    THEN LowerChars[CHOOSE i \in 1..Len(UpperChars) : UpperChars[i] = c]
    ELSE c

\* str.lower()
StrLower(s) == [i \in 1..Len(s) |-> LowerChar(s[i])]

\* str.strip(): leading and trailing whitespace removed
StrStrip(s) ==
    LET nonws == {i \in 1..Len(s) : s[i] \notin WhitespaceChars}
    IN  IF nonws = {} THEN <<>>
        ELSE LET lo == CHOOSE i \in nonws : \A j \in nonws : i <= j
                 hi == CHOOSE i \in nonws : \A j \in nonws : j <= i
             IN  SubSeq(s, lo, hi)

\* str.startswith(prefix)
StrStartsWith(s, prefix) ==
    /\ Len(prefix) <= Len(s)
    /\ SubSeq(s, 1, Len(prefix)) = prefix

\* `sub in s`: sub occurs in s as a contiguous substring
StrContains(s, sub) ==
    \E i \in 0..(Len(s) - Len(sub)) : SubSeq(s, i + 1, i + Len(sub)) = sub

\* '.'.join(s.split('.')[-2:]) when s.split('.') has at least two parts,
\* else s: the text after the second-to-last dot
LastTwoLabels(s) ==
    LET dots == {i \in 1..Len(s) : s[i] = "."}
    IN  IF Cardinality(dots) < 2 THEN s
        ELSE LET last == CHOOSE i \in dots : \A j \in dots : j <= i
                 prev == CHOOSE i \in dots \ {last} : \A j \in dots \ {last} : j <= i
             IN  SubSeq(s, prev + 1, Len(s))

\* values of the variables a specification does not use
NoInput == [text |-> <<>>, title |-> <<>>]
NoResult == "none"

\* classify_articles_ai_topics is not running
ExternalIdle ==
    /\ openai_client = FALSE
    /\ anthropic_client = FALSE
    /\ to_classify = <<>>
    /\ classified_articles = <<>>

\* process_article has not been called
ProcIdle ==
    /\ proc_article = <<>>
    /\ proc_results = <<>>

\* a NewsScheduler as __init__ leaves it, an empty schedule, and no thread
\* but the caller's
NewScheduler == [running |-> FALSE, scrape_jobs |-> 0, due |-> FALSE]

NoThreads == [caller |-> "idle", in_loop |-> 0, in_job |-> 0, manual |-> 0]

SchedIdle ==
    /\ scheduler = NewScheduler
    /\ threads = NoThreads

DashboardSessions == 2

Sessions == 1..DashboardSessions

NoPid == 0

\* a session whose script has yet to run
NewSession == [pc |-> "render", status |-> "stopped", pid |-> NoPid]

DashIdle ==
    /\ pid_file = NoPid
    /\ running_pids = {}
    /\ spawned = 0
    /\ sessions = [s \in Sessions |-> NewSession]

-----------------------------------------------------------------------------
(* DomainFailureTracker (fetcher.py)                                       *)

DefaultMaxFailures == 5

\* dict.get(key, 0)
DictGet(dict, key) == IF key \in DOMAIN dict THEN dict[key] ELSE 0

\* dict[key] = value
DictPut(dict, key, value) ==
    [k \in (DOMAIN dict) \cup {key} |-> IF k = key THEN value ELSE dict[k]]

EmptyDict == [k \in {} |-> 0]

\* DomainFailureTracker.__init__
NewTracker(cap) ==
    [ max_failures_per_domain |-> cap,
      failed_domains          |-> {},
      domain_failure_counts   |-> EmptyDict ]

\* DomainFailureTracker.mark_domain_failed: the count is set to 1 whenever the
\* domain is not yet in failed_domains, and incremented only once it is
mark_domain_failed(t, domain) ==
    LET counts == IF domain \notin t.failed_domains
                  THEN DictPut(t.domain_failure_counts, domain, 1)
                  ELSE DictPut(t.domain_failure_counts, domain,
                               t.domain_failure_counts[domain] + 1)
        failed == IF counts[domain] >= t.max_failures_per_domain
                  THEN t.failed_domains \cup {domain}
                  ELSE t.failed_domains
    IN  [t EXCEPT !.domain_failure_counts = counts, !.failed_domains = failed]

is_domain_failed(t, domain) == domain \in t.failed_domains

get_domain_failure_count(t, domain) == DictGet(t.domain_failure_counts, domain)

should_skip_domain(t, domain) ==
    \/ is_domain_failed(t, domain)
    \/ get_domain_failure_count(t, domain) >= t.max_failures_per_domain

-----------------------------------------------------------------------------
(* The state run_batch works on, before any batch has started              *)

\* start_pipeline_run returns -1 when its INSERT fails
NoRun == -1

\* run_batch's initial stats dictionary (processing_time, a wall-clock
\* duration, is left out)
InitialStats ==
    [ fetched_articles     |-> 0,
      validated_articles   |-> 0,
      stored_articles      |-> 0,
      rejected_articles    |-> 0,
      failed_fetching      |-> 0,
      failed_processing    |-> 0,
      failed_validation    |-> 0,
      failed_storage       |-> 0,
      ai_topic_count       |-> 0,
      failed_domains       |-> {},
      domain_failure_count |-> 0 ]

\* The tables _init_database creates: url sets of processed_articles and
\* rejected_articles and the rows of pipeline_runs, indexed by their
\* AUTOINCREMENT id. `aged` are the processed urls, and `old` marks the runs,
\* whose timestamp lies more than the retention period back.
EmptyDatabase ==
    [ processed |-> {}, aged |-> {}, rejected |-> {}, runs |-> <<>> ]

\* the connector's locals outside a fetch
IdleFetch ==
    [ phase           |-> "none",
      di              |-> 0,
      in_rows         |-> FALSE,
      rows            |-> <<>>,
      domain_articles |-> <<>>,
      from_domain     |-> 0,
      danish_all      |-> <<>>,
      english_all     |-> <<>> ]

\* no row of pipeline_runs belongs to the run (start_pipeline_run failed)
NoRow == <<>>

\* the count columns of a row as start_pipeline_run inserts it: each has
\* DEFAULT 0
NewRow ==
    << [ articles_fetched   |-> 0,
         articles_processed |-> 0,
         articles_stored    |-> 0,
         ai_topic_count     |-> 0 ] >>

\* config.min_article_length when MIN_ARTICLE_LENGTH is not set
DefaultMinArticleLength == 700

PipelineIdle ==
    /\ pc = "idle"
    /\ batch = 0
    /\ dbInstance = FALSE
    /\ db = EmptyDatabase
    /\ min_article_length = DefaultMinArticleLength
    /\ indexSize = 1
    /\ run_id = NoRun
    /\ stats = InitialStats
    /\ fetch = IdleFetch
    /\ articles = <<>>
    /\ processed_articles = <<>>
    /\ rejected_articles = <<>>
    /\ extractLog = <<>>
    /\ knownAtStart = {}
    /\ completeCalls = 0
    /\ run_row = NoRow
    /\ storeFault = FALSE

-----------------------------------------------------------------------------
(* The tracker on its own: any cap from 1 to the default, any sequence of  *)
(* mark_domain_failed calls on two domains                                 *)

D_cnn == <<"c", "n", "n", ".", "c", "o", "m">>
D_drdk == <<"d", "r", ".", "d", "k">>

TrackerDomains == {D_cnn, D_drdk}

\* calls made beyond the cap, per domain
ExtraCalls == 1

InitTracker ==
    /\ \E cap \in 1..DefaultMaxFailures : tracker = NewTracker(cap)
    /\ markCalls = [d \in TrackerDomains |-> 0]
    /\ candidates = <<>>
    /\ keptIdx = <<>>
    /\ clsInput = NoInput
    /\ clsResult = NoResult
    /\ callState = "input"
    /\ PipelineIdle
    /\ ExternalIdle
    /\ ProcIdle
    /\ SchedIdle
    /\ DashIdle

MarkFailed(d) ==
    /\ markCalls[d] < tracker.max_failures_per_domain + ExtraCalls
    /\ tracker' = mark_domain_failed(tracker, d)
    /\ markCalls' = [markCalls EXCEPT ![d] = @ + 1]
    /\ UNCHANGED <<dedupVars, clsVars, sideVars, callState, pipeVars>>

NextTracker == \E d \in TrackerDomains : MarkFailed(d)

SpecTracker == InitTracker /\ [][NextTracker]_vars

\* C1: after exactly max_failures_per_domain calls of mark_failed(d),
\* should_skip(d) is true; after fewer calls it is false; a domain that was
\* never marked is not skipped.
C1_Tripwire ==
    \A d \in TrackerDomains :
        /\ markCalls[d] = tracker.max_failures_per_domain => should_skip_domain(tracker, d)
        /\ markCalls[d] < tracker.max_failures_per_domain => ~should_skip_domain(tracker, d)

-----------------------------------------------------------------------------
(* In-memory deduplication (fetcher.py)                                    *)

\* A string is truthy when it is not empty
Truthy(s) == s # <<>>

\* normalize_domain_for_dedup
normalize_domain_for_dedup(domain) ==
    IF ~Truthy(domain) THEN domain
    ELSE LET lowered == StrStrip(StrLower(domain))
             bare == IF StrStartsWith(lowered, <<"w", "w", "w", ".">>)
                     THEN SubSeq(lowered, 5, Len(lowered))
                     ELSE lowered
         IN  LastTwoLabels(bare)

\* article.get('title', '').strip().lower() with the lower() left out
DedupTitleKeepCase(title) == StrStrip(title)

\* article.get('title', '').strip().lower()
DedupTitle(title) == StrLower(StrStrip(title))

\* the (normalized_domain, title) key of an article
DomainTitleKey(article) ==
    <<normalize_domain_for_dedup(article.domain), DedupTitle(article.title)>>

\* The loop of _remove_duplicate_articles from position i on; the result is
\* the sequence of positions appended to unique_articles
RECURSIVE DedupLoop(_, _, _, _, _)
DedupLoop(arts, i, seen_urls, seen_domain_title, kept) ==
    IF i > Len(arts) THEN kept
    ELSE LET article == arts[i]
             url == article.url
             title == DedupTitle(article.title)
             byUrl == Truthy(url) /\ url \in seen_urls
             useKey == ~byUrl /\ Truthy(article.domain) /\ Truthy(title)
             key == DomainTitleKey(article)
             byKey == useKey /\ key \in seen_domain_title
             is_duplicate == byUrl \/ byKey
             seen_dt == IF useKey /\ ~byKey
                        THEN seen_domain_title \cup {key}
                        ELSE seen_domain_title
             seen_u == IF ~is_duplicate /\ Truthy(url)
                       THEN seen_urls \cup {url}
                       ELSE seen_urls
         IN  DedupLoop(arts, i + 1, seen_u, seen_dt,
                       IF is_duplicate THEN kept ELSE Append(kept, i))

\* the elements of a list at the given positions
AtPositions(arts, positions) == [k \in 1..Len(positions) |-> arts[positions[k]]]

\* a deduplication in which the last candidate with a url wins: a position
\* stays unless a later candidate has the same url
keep_last_positions(arts) ==
    LET Last(i) == \A j \in (i + 1)..Len(arts) : arts[j].url # arts[i].url
    IN  SelectSeq([i \in 1..Len(arts) |-> i], Last)

\* positions of the articles that _remove_duplicate_articles returns
remove_duplicate_positions(arts) == DedupLoop(arts, 1, {}, {}, <<>>)

\* _remove_duplicate_articles
remove_duplicate_articles(arts) ==
    AtPositions(arts, remove_duplicate_positions(arts))

-----------------------------------------------------------------------------
(* Deduplication on its own: every list of up to MaxCandidates candidates  *)
(* the connector can build (url, title and domain non-empty)               *)

D_edition == <<"e", "d", "i", "t", "i", "o", "n", ".", "c", "n", "n", ".", "c", "o", "m">>
D_wwwCNN == <<"w", "w", "w", ".", "C", "N", "N", ".", "c", "o", "m">>

\* a URL is <<scheme, netloc, path>>
Url(netloc, path) == <<"https", netloc, path>>

DedupUrls == {Url(D_cnn, 1), Url(D_edition, 1)}
DedupDomains == {D_cnn, D_edition, D_wwwCNN, D_drdk}
DedupTitles == {<<"A", "i">>, <<"a", "I">>, <<" ">>}

DedupCandidates == [url : DedupUrls, title : DedupTitles, domain : DedupDomains]

MaxCandidates == 3

BoundedSeq(S, n) == UNION {[1..k -> S] : k \in 0..n}

InitDedup ==
    /\ candidates \in BoundedSeq(DedupCandidates, MaxCandidates)
    /\ keptIdx = <<>>
    /\ callState = "input"
    /\ tracker = NewTracker(DefaultMaxFailures)
    /\ markCalls = [d \in TrackerDomains |-> 0]
    /\ clsInput = NoInput
    /\ clsResult = NoResult
    /\ PipelineIdle
    /\ ExternalIdle
    /\ ProcIdle
    /\ SchedIdle
    /\ DashIdle

RemoveDuplicates ==
    /\ callState = "input"
    /\ keptIdx' = remove_duplicate_positions(candidates)
    /\ callState' = "done"
    /\ UNCHANGED <<candidates, trackerVars, clsVars, sideVars, pipeVars>>

NextDedup == RemoveDuplicates

SpecDedup == InitDedup /\ [][NextDedup]_vars

Survives(i) == \E k \in 1..Len(keptIdx) : keptIdx[k] = i

SameUrl(a, b) == a.url = b.url

\* equal normalize_domain_for_dedup(domain) and case-insensitive-equal title
SameDomainTitle(a, b) ==
    /\ normalize_domain_for_dedup(a.domain) = normalize_domain_for_dedup(b.domain)
    /\ StrLower(a.title) = StrLower(b.title)

NonBlankTitle(a) == StrStrip(a.title) # <<>>

\* C5 as stated: of any two candidates with identical url, or with equal
\* normalized domain and case-insensitive-equal title, exactly one survives.
C5_ExactlyOneSurvives ==
    callState = "done" =>
        \A i, j \in 1..Len(candidates) :
            (i < j /\ (SameUrl(candidates[i], candidates[j])
                       \/ SameDomainTitle(candidates[i], candidates[j])))
            => (Survives(i) /\ ~Survives(j)) \/ (~Survives(i) /\ Survives(j))

\* C5 amended: of any two candidates with identical url, or with equal
\* normalized domain and case-insensitive-equal title that is not blank, at
\* most one survives, and when the list is just these two the first survives.
C5_DedupSound ==
    callState = "done" =>
        \A i, j \in 1..Len(candidates) :
            (i < j /\ (SameUrl(candidates[i], candidates[j])
                       \/ (SameDomainTitle(candidates[i], candidates[j])
                           /\ NonBlankTitle(candidates[i]))))
            => /\ ~(Survives(i) /\ Survives(j))
               /\ Len(candidates) = 2 => (Survives(i) /\ ~Survives(j))

\* C5 witness: edition.cnn.com and cnn.com candidates with different urls and
\* titles that differ only in case; the second one is dropped.
C5_Witness ==
    /\ callState = "done"
    /\ Len(candidates) = 2
    /\ candidates[1].url # candidates[2].url
    /\ candidates[1].domain = D_edition
    /\ candidates[2].domain = D_cnn
    /\ candidates[1].title # candidates[2].title
    /\ SameDomainTitle(candidates[1], candidates[2])
    /\ keptIdx = <<1>>

-----------------------------------------------------------------------------
(* Keyword fallback classifier (ai_classifier.py)                          *)

\* core_ai_terms of _classify_with_fallback
core_ai_terms ==
    << <<"a", "r", "t", "i", "f", "i", "c", "i", "a", "l", " ", "i", "n", "t", "e", "l", "l", "i", "g", "e", "n", "c", "e">>,
       <<"m", "a", "c", "h", "i", "n", "e", " ", "l", "e", "a", "r", "n", "i", "n", "g">>,
       <<"d", "e", "e", "p", " ", "l", "e", "a", "r", "n", "i", "n", "g">>,
       <<"n", "e", "u", "r", "a", "l", " ", "n", "e", "t", "w", "o", "r", "k">>,
       <<"o", "p", "e", "n", "a", "i">>,
       <<"c", "h", "a", "t", "g", "p", "t">>,
       <<"g", "p", "t", "-", "4">>,
       <<"g", "p", "t", "4">>,
       <<"c", "l", "a", "u", "d", "e">>,
       <<"t", "r", "a", "n", "s", "f", "o", "r", "m", "e", "r">>,
       <<"l", "l", "m">>,
       <<"l", "a", "r", "g", "e", " ", "l", "a", "n", "g", "u", "a", "g", "e", " ", "m", "o", "d", "e", "l">>,
       <<"n", "a", "t", "u", "r", "a", "l", " ", "l", "a", "n", "g", "u", "a", "g", "e", " ", "p", "r", "o", "c", "e", "s", "s", "i", "n", "g">>,
       <<"c", "o", "m", "p", "u", "t", "e", "r", " ", "v", "i", "s", "i", "o", "n">>,
       <<"g", "e", "n", "e", "r", "a", "t", "i", "v", "e", " ", "a", "i">>,
       <<"a", "i", " ", "m", "o", "d", "e", "l">>,
       <<"a", "i", " ", "s", "y", "s", "t", "e", "m">>,
       <<"a", "i", " ", "r", "e", "s", "e", "a", "r", "c", "h">>,
       <<"a", "i", " ", "t", "e", "c", "h", "n", "o", "l", "o", "g", "y">> >>

\* ai_keywords of _extract_keywords_from_text
ai_keywords ==
    << <<"a", "r", "t", "i", "f", "i", "c", "i", "a", "l", " ", "i", "n", "t", "e", "l", "l", "i", "g", "e", "n", "c", "e">>,
       <<"m", "a", "c", "h", "i", "n", "e", " ", "l", "e", "a", "r", "n", "i", "n", "g">>,
       <<"d", "e", "e", "p", " ", "l", "e", "a", "r", "n", "i", "n", "g">>,
       <<"n", "e", "u", "r", "a", "l", " ", "n", "e", "t", "w", "o", "r", "k">>,
       <<"o", "p", "e", "n", "a", "i">>,
       <<"c", "h", "a", "t", "g", "p", "t">>,
       <<"g", "p", "t">>,
       <<"c", "l", "a", "u", "d", "e">>,
       <<"t", "r", "a", "n", "s", "f", "o", "r", "m", "e", "r">>,
       <<"l", "l", "m">>,
       <<"l", "a", "r", "g", "e", " ", "l", "a", "n", "g", "u", "a", "g", "e", " ", "m", "o", "d", "e", "l">>,
       <<"n", "a", "t", "u", "r", "a", "l", " ", "l", "a", "n", "g", "u", "a", "g", "e", " ", "p", "r", "o", "c", "e", "s", "s", "i", "n", "g">>,
       <<"c", "o", "m", "p", "u", "t", "e", "r", " ", "v", "i", "s", "i", "o", "n">>,
       <<"g", "e", "n", "e", "r", "a", "t", "i", "v", "e", " ", "a", "i">>,
       <<"a", "i", " ", "m", "o", "d", "e", "l">>,
       <<"a", "i", " ", "s", "y", "s", "t", "e", "m">> >>

\* the terms that select "AI Language Models and NLP"
language_model_terms ==
    << <<"c", "h", "a", "t", "g", "p", "t">>, <<"g", "p", "t">>, <<"c", "l", "a", "u", "d", "e">>, <<"l", "l", "m">> >>

\* the terms that select "AI Business and Industry"
vendor_terms ==
    << <<"o", "p", "e", "n", "a", "i">>, <<"a", "n", "t", "h", "r", "o", "p", "i", "c">> >>

\* f"{title} {text}"
FullText(text, title) == title \o <<" ">> \o text

\* sum(1 for term in terms[i..] if term in text_lower)
RECURSIVE CountTermsFrom(_, _, _)
CountTermsFrom(terms, i, text_lower) ==
    IF i > Len(terms) THEN 0
    ELSE (IF StrContains(text_lower, terms[i]) THEN 1 ELSE 0)
         + CountTermsFrom(terms, i + 1, text_lower)

\* the number of places of text_lower where a term starts
RECURSIVE CountOccurrencesFrom(_, _, _)
CountOccurrencesFrom(terms, i, text_lower) ==
    IF i > Len(terms) THEN 0
    ELSE Cardinality({k \in 0..(Len(text_lower) - Len(terms[i])) :
                        SubSeq(text_lower, k + 1, k + Len(terms[i])) = terms[i]})
         + CountOccurrencesFrom(terms, i + 1, text_lower)

\* ai_count with every occurrence of a term counted
AiCountOccurrences(text_lower) == CountOccurrencesFrom(core_ai_terms, 1, text_lower)

\* ai_count = sum(1 for term in core_ai_terms if term in text_lower)
AiCount(text_lower) == CountTermsFrom(core_ai_terms, 1, text_lower)

\* any(term in text_lower for term in terms)
AnyTermIn(terms, text_lower) ==
    \E i \in 1..Len(terms) : StrContains(text_lower, terms[i])

\* A Python float is <<t, e>>: the double nearest to t/10 when e = 0, and
\* that double plus e units of 2^-53 when e > 0.  In IEEE-754 double
\* arithmetic 0.4 + 2*0.1 = 0.6000000000000001 and 0.4 + 3*0.1 =
\* 0.7000000000000001 (one unit above the doubles 0.6 and 0.7), while
\* 0.4 + 0*0.1, 0.4 + 1*0.1 and 0.4 + 4*0.1 are the doubles 0.4, 0.5, 0.8.
FloatSum_04_plus_tenths(n) ==
    IF n \in {2, 3} THEN <<4 + n, 1>> ELSE <<4 + n, 0>>

FloatLess(x, y) == x[1] < y[1] \/ (x[1] = y[1] /\ x[2] < y[2])

FloatMin(x, y) == IF FloatLess(y, x) THEN y ELSE x

Float_0_8 == <<8, 0>>

\* _extract_keywords_from_text: found_keywords[:5]
RECURSIVE FoundKeywordsFrom(_, _)
FoundKeywordsFrom(i, text_lower) ==
    IF i > Len(ai_keywords) THEN <<>>
    ELSE (IF StrContains(text_lower, ai_keywords[i]) THEN <<ai_keywords[i]>> ELSE <<>>)
         \o FoundKeywordsFrom(i + 1, text_lower)

extract_keywords_from_text(text) ==
    LET found == FoundKeywordsFrom(1, StrLower(text))
    IN  SubSeq(found, 1, IF Len(found) < 5 THEN Len(found) ELSE 5)

\* _classify_with_fallback
classify_with_fallback(text, title) ==
    LET full_text == FullText(text, title)
        text_lower == StrLower(full_text)
        ai_count == AiCount(text_lower)
        is_ai_topic == ai_count >= 3
        confidence == FloatMin(Float_0_8, FloatSum_04_plus_tenths(ai_count))
        topic == IF ~is_ai_topic THEN "None"
                 ELSE IF AnyTermIn(language_model_terms, text_lower)
                      THEN "AI Language Models and NLP"
                 ELSE IF AnyTermIn(vendor_terms, text_lower)
                      THEN "AI Business and Industry"
                 ELSE "AI Technology and Infrastructure"
    IN  [ is_ai_topic |-> is_ai_topic,
          confidence  |-> confidence,
          topic       |-> topic,
          explanation |-> <<"Fallback classification", ai_count, ~is_ai_topic>>,
          keywords    |-> extract_keywords_from_text(full_text) ]

-----------------------------------------------------------------------------
(* The fallback classifier on its own: no API client is configured, the    *)
(* text is up to MaxWords words of a small vocabulary joined by spaces     *)

W_ml == <<"M", "a", "c", "h", "i", "n", "e", " ", "L", "e", "a", "r", "n", "i", "n", "g">>
W_openai == <<"O", "p", "e", "n", "A", "I">>
W_model == <<"m", "o", "d", "e", "l">>
W_chatgpt == <<"C", "h", "a", "t", "G", "P", "T">>
W_news == <<"n", "e", "w", "s">>

Vocabulary == {W_ml, W_openai, W_model, W_chatgpt, W_news}

ClsTitles == {<<>>, <<"D", "e", "e", "p", " ", "l", "e", "a", "r", "n", "i", "n", "g">>}

MaxWords == 4

\* ' '.join(words)
RECURSIVE JoinWords(_)
JoinWords(words) ==
    IF Len(words) = 0 THEN <<>>
    ELSE IF Len(words) = 1 THEN words[1]
    ELSE words[1] \o <<" ">> \o JoinWords(Tail(words))

InitClassify ==
    /\ \E words \in BoundedSeq(Vocabulary, MaxWords), title \in ClsTitles :
           clsInput = [text |-> JoinWords(words), title |-> title]
    /\ clsResult = NoResult
    /\ callState = "input"
    /\ tracker = NewTracker(DefaultMaxFailures)
    /\ markCalls = [d \in TrackerDomains |-> 0]
    /\ candidates = <<>>
    /\ keptIdx = <<>>
    /\ PipelineIdle
    /\ ExternalIdle
    /\ ProcIdle
    /\ SchedIdle
    /\ DashIdle

\* classify_article with openai_client and anthropic_client both None
ClassifyNoClient ==
    /\ callState = "input"
    /\ clsResult' = classify_with_fallback(clsInput.text, clsInput.title)
    /\ callState' = "done"
    /\ UNCHANGED <<clsInput, sideVars, trackerVars, dedupVars, pipeVars>>

NextClassify == ClassifyNoClient

SpecClassify == InitClassify /\ [][NextClassify]_vars

ClsLower == StrLower(FullText(clsInput.text, clsInput.title))

\* the distinct terms of the keyword list that occur in title + text
TermsPresent ==
    {core_ai_terms[i] : i \in {k \in 1..Len(core_ai_terms) :
                                 StrContains(ClsLower, core_ai_terms[k])}}

\* the number of occurrences of keyword-list terms in title + text
Occurrences == CountOccurrencesFrom(core_ai_terms, 1, ClsLower)

MachineLearningFourTimes == JoinWords(<<W_ml, W_ml, W_ml, W_ml>>)

\* C9 as stated: with no external classifier, classify counts the occurrences
\* of the keyword-list terms in title + text and returns is_ai_topic =
\* (count >= 3) and confidence = min(0.8, 0.4 + 0.1*count), so 3 occurrences
\* give true and 0.7 and 'machine learning' four times gives true and 0.8
\* (the confidence is compared up to the rounding of double arithmetic).
C9_CountsOccurrences ==
    callState = "done" =>
        /\ clsResult.is_ai_topic = (Occurrences >= 3)
        /\ clsResult.confidence[1] = (IF Occurrences >= 4 THEN 8 ELSE 4 + Occurrences)

\* C9 amended: with no external classifier, classify counts the distinct
\* keyword-list terms that occur in lower-cased title + " " + text and returns
\* is_ai_topic = (count >= 3) and confidence = min(0.8, 0.4 + 0.1*count) in
\* double arithmetic (0.7000000000000001 for 3 terms, 0.8 from 4 terms on);
\* 'machine learning' four times and nothing else gives false and 0.5.
C9_CountsDistinctTerms ==
    callState = "done" =>
        LET n == Cardinality(TermsPresent)
        IN  /\ clsResult.is_ai_topic = (n >= 3)
            /\ n >= 4 => clsResult.confidence = <<8, 0>>
            /\ n = 3 => clsResult.confidence = <<7, 1>>
            /\ n = 2 => clsResult.confidence = <<6, 1>>
            /\ n < 2 => clsResult.confidence = <<4 + n, 0>>
            /\ (clsInput.text = MachineLearningFourTimes /\ clsInput.title = <<>>)
                   => (~clsResult.is_ai_topic /\ clsResult.confidence = <<5, 0>>)

\* C9 witness: the classifier has run on 'Machine Learning' four times with
\* an empty title and answered false with confidence 0.5.
C9_Witness ==
    /\ callState = "done"
    /\ clsInput.text = MachineLearningFourTimes
    /\ clsInput.title = <<>>
    /\ Occurrences = 4
    /\ clsResult.is_ai_topic = FALSE
    /\ clsResult.confidence = <<5, 0>>

-----------------------------------------------------------------------------
(* The connector: what the news index lists, and the parsing of one hit    *)

StrEndsWith(s, suffix) ==
    /\ Len(suffix) <= Len(s)
    /\ SubSeq(s, Len(s) - Len(suffix) + 1, Len(s)) = suffix

\* RELIABLE_NEWS_DOMAINS, two of its entries
RELIABLE_NEWS_DOMAINS == <<D_cnn, D_drdk>>

\* PROBLEMATIC_DOMAINS, two of its entries
PROBLEMATIC_DOMAINS ==
    << <<"y", "o", "u", "t", "u", "b", "e", ".", "c", "o", "m">>,
       <<"t", "w", "i", "t", "t", "e", "r", ".", "c", "o", "m">> >>

\* japanese_domains of _parse_gdeltdoc_dataframe_row, two of its entries
japanese_domains ==
    << <<"a", "s", "a", "h", "i", ".", "c", "o", "m">>,
       <<"m", "a", "i", "n", "i", "c", "h", "i", ".", "j", "p">> >>

\* the language codes _parse_gdeltdoc_dataframe_row lets through
AllowedLanguages == {"en", "da", "danish", "eng", "dan", "English", "Danish"}

DotDk == <<".", "d", "k">>

\* gdelt_danish_domains of fetch_danish_news
gdelt_danish_domains ==
    SelectSeq(RELIABLE_NEWS_DOMAINS, LAMBDA d : StrContains(d, DotDk))

\* gdelt_domains of fetch_by_domains
gdelt_domains ==
    SelectSeq(RELIABLE_NEWS_DOMAINS, LAMBDA d : ~StrContains(d, DotDk))

Digits == <<"1", "2", "3", "4", "5", "6", "7", "8", "9">>

\* The headline the index lists for a url: story 1 of cnn.com is also
\* listed under edition.cnn.com with another capitalisation
HeadlineOf(url) ==
    IF url[3] = 1
    THEN (IF url[2] = D_edition THEN <<"a", "I">> ELSE <<"A", "i">>)
    ELSE <<"n", Digits[url[3]]>>

\* one row of the DataFrame article_search returns
IndexRow(url) ==
    [ url      |-> url,
      title    |-> HeadlineOf(url),
      seendate |-> <<"2", "0", "2", "4", "0", "1", "0", "1">>,
      domain   |-> url[2],
      language |-> IF StrContains(url[2], DotDk) THEN "Danish" ELSE "English" ]

\* the rows the index can list for a queried domain, in the index's order
IndexListing(domain, size) ==
    IF domain = D_drdk THEN << IndexRow(Url(D_drdk, 1)) >>
    ELSE << IndexRow(Url(D_cnn, 1)), IndexRow(Url(D_edition, 1)) >>
         \o [k \in 1..(size - 1) |-> IndexRow(Url(D_cnn, k + 1))]

\* every non-empty DataFrame a query for the domain can return: the rows seen
\* within the queried time window, a contiguous run of the listing
SearchResults(domain, size) ==
    LET listing == IndexListing(domain, size)
    IN  {SubSeq(listing, i, j) : i, j \in 1..Len(listing)} \ {<<>>}

\* what _extract_text_advanced can return for a url: None, or a stripped text
\* of more than 200 characters. A text is represented by its length `raw` and
\* by the length `clean` that is left of it once the connector has replaced
\* tags by blanks, collapsed whitespace and stripped it.
NoText == [raw |-> 0, clean |-> 0]

ExtractionResults ==
    { NoText,
      [raw |-> 300, clean |-> 300],
      [raw |-> 700, clean |-> 700],
      [raw |-> 700, clean |-> 650],
      [raw |-> 700, clean |-> 0] }

\* the length below which the connector drops an extracted text
ConnectorMinLength == 700

\* An optional value is a sequence: empty for None, else of length one
NoneValue == <<>>

Some(value) == <<value>>

NoArticle == NoneValue

\* parsed_url.netloc.lower() with a leading "www." removed
UrlDomain(url) ==
    LET netloc == StrLower(url[2])
    IN  IF StrStartsWith(netloc, <<"w", "w", "w", ".">>)
        THEN SubSeq(netloc, 5, Len(netloc))
        ELSE netloc

\* _parse_gdeltdoc_dataframe_row from the computation of url_domain on, for
\* a row that passed the checks before it
ParseForDomain(t, row, ext, url_domain) ==
    LET is_reliable == \E i \in DOMAIN RELIABLE_NEWS_DOMAINS :
                           StrEndsWith(url_domain, RELIABLE_NEWS_DOMAINS[i])
        is_problematic == \E i \in DOMAIN PROBLEMATIC_DOMAINS :
                              StrContains(url_domain, PROBLEMATIC_DOMAINS[i])
        is_japanese == \E i \in DOMAIN japanese_domains :
                           StrContains(url_domain, japanese_domains[i])
        dropped == [article |-> NoArticle, tracker |-> t,
                    extracted |-> FALSE, failed |-> FALSE]
        failure == [article |-> NoArticle,
                    tracker |-> mark_domain_failed(t, url_domain),
                    extracted |-> TRUE, failed |-> TRUE]
    IN  IF should_skip_domain(t, url_domain) THEN dropped
        ELSE IF is_problematic THEN dropped
        ELSE IF is_japanese THEN dropped
        ELSE IF ~is_reliable THEN dropped
        ELSE IF ext = NoText THEN failure
        ELSE IF ext.raw < ConnectorMinLength THEN failure
        ELSE [ article   |-> Some([ url          |-> row.url,
                                    title        |-> row.title,
                                    text         |-> ext.clean,
                                    domain       |-> IF Truthy(row.domain)
                                                     THEN row.domain ELSE row.url[2],
                                    language     |-> row.language,
                                    date_publish |-> row.seendate ]),
               tracker   |-> t,
               extracted |-> TRUE,
               failed    |-> FALSE ]

\* _parse_gdeltdoc_dataframe_row(row, processed_urls) on the tracker t, with
\* `ext` what _extract_text_advanced returns if it is called. The result
\* holds the article or None, the tracker afterwards, and whether the
\* extractor was called and whether that counted as a failure.
parse_gdeltdoc_dataframe_row(t, row, processed_urls, ext) ==
    LET dropped == [article |-> NoArticle, tracker |-> t,
                    extracted |-> FALSE, failed |-> FALSE]
    IN  IF ~(Truthy(row.url) /\ Truthy(row.title) /\ Truthy(row.seendate))
        THEN dropped
        ELSE IF processed_urls # NoneValue /\ processed_urls[1] # {}
                /\ row.url \in processed_urls[1] THEN dropped
        ELSE IF ~StrContains(StrLower(row.domain), DotDk)
                /\ row.language \notin AllowedLanguages THEN dropped
        ELSE ParseForDomain(t, row, ext, UrlDomain(row.url))

-----------------------------------------------------------------------------
(* The store                                                               *)

\* ArticleDatabase.get_processed_urls when its queries succeed
get_processed_urls(d) == d.processed \cup d.rejected

\* ArticleDatabase.cleanup_old_records when its transaction commits
cleanup_old_records(d) ==
    [ d EXCEPT !.processed = @ \ d.aged,
               !.aged = {},
               !.runs = [i \in DOMAIN @ |->
                            IF @[i].old THEN [@[i] EXCEPT !.status = "deleted"]
                            ELSE @[i]] ]

\* ArticleDatabase.start_pipeline_run when its INSERT commits
start_pipeline_run(d) ==
    [ d EXCEPT !.runs = Append(@, [status |-> "running", old |-> FALSE]) ]

\* ArticleDatabase.complete_pipeline_run when its UPDATE commits
complete_pipeline_run(d, id) ==
    IF id \in DOMAIN d.runs /\ d.runs[id].status # "deleted"
    THEN [ d EXCEPT !.runs[id].status = "completed" ]
    ELSE d

\* the count columns the UPDATE of complete_pipeline_run sets, each read
\* with stats.get(key, 0)
run_columns(run_stats) ==
    [ articles_fetched   |-> DictGet(run_stats, "fetched_articles"),
      articles_processed |-> DictGet(run_stats, "processed_articles"),
      articles_stored    |-> DictGet(run_stats, "stored_articles"),
      ai_topic_count     |-> DictGet(run_stats, "ai_topic_count") ]

\* the count columns of the run's row after complete_pipeline_run(id, stats)
\* committed: the UPDATE changes the row with that id, if there is one
update_run_row(row, d, id, run_stats) ==
    IF id \in DOMAIN d.runs /\ d.runs[id].status # "deleted" /\ row # NoRow
    THEN << run_columns(run_stats) >>
    ELSE row

UrlsOf(arts) == {arts[i].url : i \in DOMAIN arts}

\* ArticleDatabase.add_processed_articles when its transaction commits
add_processed_articles(d, arts) ==
    [ d EXCEPT !.processed = @ \cup UrlsOf(arts),
               !.aged = @ \ UrlsOf(arts) ]

\* ArticleDatabase.add_rejected_articles when its transaction commits
add_rejected_articles(d, arts) ==
    [ d EXCEPT !.rejected = @ \cup UrlsOf(arts) ]

-----------------------------------------------------------------------------
(* run_batch, from its start to the connector's return                     *)

MaxBatches == 2

\* the values of MIN_ARTICLE_LENGTH the service is started with
MinLengthChoices == {100, DefaultMinArticleLength}

\* fetch_gdelt_news_articles loads processed_urls from the store but calls
\* fetch_gdelt_news_articles_unlimited() without an argument, so every
\* processed_urls parameter below it holds the default None
ProcessedUrlsArgument(loaded) == NoneValue

StartFetch ==
    [ IdleFetch EXCEPT !.phase = "danish", !.di = 1 ]

\* a prologue of fetch_gdelt_news_articles that kept the tracker of the
\* batch before
keep_domain_failure_tracker(t) == t

\* reset_domain_failure_tracker: the module's tracker becomes a new
\* DomainFailureTracker(), whatever the old one held
reset_domain_failure_tracker(t) == NewTracker(DefaultMaxFailures)

\* run_batch up to the connector's first query: init_database, the opening
\* of the run, and the prologue of fetch_gdelt_news_articles
RunBatchStart ==
    /\ pc \in {"idle", "returned", "raised"}
    /\ batch < MaxBatches
    /\ batch' = batch + 1
    /\ \/ /\ ~dbInstance
          /\ pc' = "raised"
          /\ UNCHANGED <<dbInstance, db, run_id, stats, fetch, articles,
                         processed_articles, rejected_articles, extractLog,
                         knownAtStart, completeCalls, run_row, storeFault, tracker>>
       \/ \E cleaned \in BOOLEAN, started \in BOOLEAN :
             LET db1 == IF cleaned THEN cleanup_old_records(db) ELSE db
                 db2 == IF started THEN start_pipeline_run(db1) ELSE db1
             IN  /\ dbInstance' = TRUE
                 /\ db' = db2
                 /\ run_id' = IF started THEN Len(db2.runs) ELSE NoRun
                 /\ stats' = InitialStats
                 /\ tracker' = reset_domain_failure_tracker(tracker)
                 /\ fetch' = StartFetch
                 /\ articles' = <<>>
                 /\ processed_articles' = <<>>
                 /\ rejected_articles' = <<>>
                 /\ extractLog' = <<>>
                 /\ knownAtStart' = get_processed_urls(db2)
                 /\ completeCalls' = 0
                 /\ run_row' = IF started THEN NewRow ELSE NoRow
                 /\ storeFault' = FALSE
                 /\ pc' = "fetching"
    /\ UNCHANGED <<min_article_length, indexSize, markCalls, dedupVars, clsVars, sideVars,
                   callState>>

\* The retention period of cleanup_old_records (30 days) elapses between two
\* batches: every stored timestamp is now older than that
RetentionElapses ==
    /\ pc \in {"returned", "raised"}
    /\ batch < MaxBatches
    /\ \/ db.aged # db.processed
       \/ \E i \in DOMAIN db.runs : ~db.runs[i].old
    /\ db' = [ db EXCEPT !.aged = db.processed,
                         !.runs = [i \in DOMAIN @ |-> [@[i] EXCEPT !.old = TRUE]] ]
    /\ UNCHANGED <<pc, batch, dbInstance, min_article_length, indexSize, run_id,
                   stats, fetch, articles, processed_articles, rejected_articles,
                   extractLog, knownAtStart, completeCalls, run_row, storeFault, tracker,
                   markCalls, dedupVars, clsVars, sideVars, callState>>

FetchDomains(f) ==
    IF f.phase = "danish" THEN gdelt_danish_domains ELSE gdelt_domains

\* the loop over the domains moves on: to the next domain, from the Danish
\* list to the other one, or out of the last loop
NextDomain(f) ==
    LET g == [ f EXCEPT !.in_rows = FALSE, !.rows = <<>>,
                        !.domain_articles = <<>>, !.from_domain = 0 ]
    IN  IF f.di < Len(FetchDomains(f)) THEN [ g EXCEPT !.di = @ + 1 ]
        ELSE IF f.phase = "danish" THEN [ g EXCEPT !.phase = "english", !.di = 1 ]
        ELSE [ g EXCEPT !.phase = "done", !.di = 0 ]

\* what follows the row loop of one domain in fetch_danish_news: a domain the
\* tracker tells to skip loses its articles, a domain without articles is
\* marked failed
AfterDanishRows(t, f, domain) ==
    IF should_skip_domain(t, domain)
    THEN [tracker |-> t, fetch |-> NextDomain(f)]
    ELSE [ tracker |-> IF Len(f.domain_articles) > 0 THEN t
                       ELSE mark_domain_failed(t, domain),
           fetch   |-> NextDomain([f EXCEPT !.danish_all = @ \o f.domain_articles]) ]

\* what follows the row loop of one domain in fetch_by_domains
AfterOtherRows(t, f, domain) ==
    [ tracker |-> IF f.from_domain > 0 THEN t ELSE mark_domain_failed(t, domain),
      fetch   |-> NextDomain(f) ]

\* One pass of the domain loop of fetch_danish_news or fetch_by_domains up
\* to the row loop: the domain is skipped, or the index is queried and the
\* query raises, finds nothing, or returns rows
ArticleSearch ==
    /\ pc = "fetching"
    /\ fetch.phase \in {"danish", "english"}
    /\ ~fetch.in_rows
    /\ LET domain == FetchDomains(fetch)[fetch.di]
       IN  IF should_skip_domain(tracker, domain)
           THEN /\ fetch' = NextDomain(fetch)
                /\ UNCHANGED tracker
           ELSE \/ \E found \in {"raises", "empty"} :
                      /\ tracker' = mark_domain_failed(tracker, domain)
                      /\ fetch' = NextDomain(fetch)
                \/ \E rows \in SearchResults(domain, indexSize) :
                      /\ fetch' = [ fetch EXCEPT !.in_rows = TRUE, !.rows = rows,
                                                 !.domain_articles = <<>>,
                                                 !.from_domain = 0 ]
                      /\ UNCHANGED tracker
    /\ UNCHANGED <<pc, batch, dbInstance, db, min_article_length, indexSize,
                   run_id, stats, articles, processed_articles,
                   rejected_articles, extractLog, knownAtStart, completeCalls, run_row,
                   storeFault, markCalls, dedupVars, clsVars, sideVars, callState>>

\* One pass of the row loop: the next row is parsed, its article, if any, is
\* kept; after the last row the domain is closed
ParseRow ==
    /\ pc = "fetching"
    /\ fetch.in_rows
    /\ fetch.rows # <<>>
    /\ \E ext \in ExtractionResults :
          \E r \in { parse_gdeltdoc_dataframe_row(
                          tracker, Head(fetch.rows),
                          ProcessedUrlsArgument(get_processed_urls(db)), ext) } :
          LET domain == FetchDomains(fetch)[fetch.di]
              row == Head(fetch.rows)
              kept == IF r.article = NoArticle THEN fetch
                      ELSE IF fetch.phase = "danish"
                      THEN [ fetch EXCEPT !.domain_articles = @ \o r.article ]
                      ELSE [ fetch EXCEPT !.english_all = @ \o r.article,
                                          !.from_domain = @ + 1 ]
              f == [ kept EXCEPT !.rows = Tail(@) ]
              closed == IF fetch.phase = "danish"
                        THEN AfterDanishRows(r.tracker, f, domain)
                        ELSE AfterOtherRows(r.tracker, f, domain)
          IN  /\ extractLog' = IF r.extracted
                               THEN Append(extractLog,
                                           [ url    |-> row.url,
                                             domain |-> UrlDomain(row.url),
                                             failed |-> r.failed ])
                               ELSE extractLog
              /\ IF f.rows = <<>>
                 THEN tracker' = closed.tracker /\ fetch' = closed.fetch
                 ELSE tracker' = r.tracker /\ fetch' = f
    /\ UNCHANGED <<pc, batch, dbInstance, db, min_article_length, indexSize,
                   run_id, stats, articles, processed_articles,
                   rejected_articles, knownAtStart, completeCalls, run_row, storeFault,
                   markCalls, dedupVars, clsVars, sideVars, callState>>

\* tracker.get_failed_domains_report, the two entries run_batch reads
get_failed_domains_report(t) ==
    [ failed_domains |-> t.failed_domains,
      total_failures |-> Cardinality(t.failed_domains) ]

\* where run_batch would be after an empty fetch if its `return stats` were
\* missing: on the way to the finalization at its end
AfterEmptyFetchFallsThrough == "finalizing"

\* where run_batch is after an empty fetch: `return stats`
AfterEmptyFetch == "returned"

\* The connector returns: each list is deduplicated, then their
\* concatenation; run_batch finalizes the run and returns if nothing was
\* fetched, or records the fetch in stats and goes on
FetchReturn ==
    /\ pc = "fetching"
    /\ fetch.phase = "done"
    /\ \E danish_articles \in {remove_duplicate_articles(fetch.danish_all)},
          english_articles \in {remove_duplicate_articles(fetch.english_all)} :
       \E unique_articles \in
              {remove_duplicate_articles(danish_articles \o english_articles)} :
       LET failure_report == get_failed_domains_report(tracker)
       IN  /\ articles' = unique_articles
           /\ fetch' = IdleFetch
           /\ IF unique_articles = <<>>
              THEN /\ \E completed \in BOOLEAN :
                         /\ db' = IF completed
                                  THEN complete_pipeline_run(db, run_id)
                                  ELSE db
                         /\ run_row' = IF completed
                                       THEN update_run_row(run_row, db, run_id, stats)
                                       ELSE run_row
                   /\ completeCalls' = completeCalls + 1
                   /\ pc' = AfterEmptyFetch
                   /\ UNCHANGED stats
              ELSE /\ stats' =
                         IF failure_report.total_failures > 0
                         THEN [ stats EXCEPT
                                  !.fetched_articles = Len(unique_articles),
                                  !.failed_domains = failure_report.failed_domains,
                                  !.domain_failure_count = failure_report.total_failures ]
                         ELSE [ stats EXCEPT !.fetched_articles = Len(unique_articles) ]
                   /\ pc' = "processing"
                   /\ UNCHANGED <<db, completeCalls, run_row>>
    /\ extractLog' = <<>>
    /\ UNCHANGED <<batch, dbInstance, min_article_length, indexSize, run_id,
                   processed_articles, rejected_articles, knownAtStart,
                   storeFault, tracker, markCalls, dedupVars, clsVars, sideVars, callState>>

-----------------------------------------------------------------------------
(* run_batch after the fetch: validation, duplicate removal against the    *)
(* store, classification, storage, finalization                            *)

\* length of the text validate_article writes into an article without text:
\* 155 fixed characters around the domain and the title
PlaceholderFixedLength == 155

PlaceholderLength(article) ==
    PlaceholderFixedLength + Len(article.domain) + Len(article.title)

\* a required field that is empty, or blank once stripped
Blank(value) == ~Truthy(value) \/ StrStrip(value) = <<>>

\* url.startswith(('http://', 'https://'))
HasHttpScheme(url) == url[1] \in {"http", "https"}

\* validate_article without its comparison of the text length with
\* config.min_article_length
validate_article_any_length(article, min_length) ==
    LET filled == IF article.text = 0
                  THEN [ article EXCEPT !.text = PlaceholderLength(article) ]
                  ELSE article
        valid == /\ ~Blank(article.title)
                 /\ ~Blank(article.date_publish)
                 /\ Truthy(article.url)
                 /\ HasHttpScheme(article.url)
    IN  [ valid |-> valid, article |-> filled ]

\* validate_article: the verdict, and the article as the call leaves it (an
\* empty text is replaced by the placeholder). All four required keys are
\* present in every article the connector builds.
validate_article(article, min_length) ==
    LET filled == IF article.text = 0
                  THEN [ article EXCEPT !.text = PlaceholderLength(article) ]
                  ELSE article
        valid == /\ ~Blank(article.title)
                 /\ ~Blank(article.date_publish)
                 /\ Truthy(article.url)
                 /\ filled.text >= min_length
                 /\ HasHttpScheme(article.url)
    IN  [ valid |-> valid, article |-> filled ]

\* process_article: every field is kept (the texts are well-formed Unicode,
\* which the UTF-8 round trip returns unchanged) and processed_at is added
process_article(article) ==
    [ url          |-> article.url,
      title        |-> article.title,
      text         |-> article.text,
      domain       |-> article.domain,
      language     |-> article.language,
      date_publish |-> article.date_publish,
      processed_at |-> "now" ]

\* the article as the validation loop appends it to rejected_articles
RejectWith(article, reason) ==
    [ url              |-> article.url,
      title            |-> article.title,
      text             |-> article.text,
      domain           |-> article.domain,
      language         |-> article.language,
      date_publish     |-> article.date_publish,
      rejection_reason |-> reason ]

\* article['rejection_reason'] = 'validation_failed'
Reject(article) == RejectWith(article, "validation_failed")

\* the except branch of the loop if it gave the article no reason
RejectProcessingErrorNoReason(article) == RejectWith(article, "")

\* article['rejection_reason'] = f'processing_error: {str(e)}'
RejectProcessingError(article) == RejectWith(article, "processing_error")

\* the exceptions one batch meets in its validation loop
MaxProcessingFaults == 1

\* What goes wrong for each article of the loop: nothing, validate_article
\* raises ValidationError (at its first statement, load_config), or
\* process_article raises ProcessorError when it is called
ProcessingFaults == {"none", "validate", "process"}

FaultChoices(arts) ==
    { f \in [DOMAIN arts -> ProcessingFaults] :
        Cardinality({i \in DOMAIN arts : f[i] # "none"}) <= MaxProcessingFaults }

NoFaults(arts) == [i \in DOMAIN arts |-> "none"]

\* the validation loop of run_batch from position i on
RECURSIVE ValidationLoop(_, _, _, _, _, _, _)
ValidationLoop(arts, i, min_length, faults, accepted, rejected, failed) ==
    IF i > Len(arts)
    THEN [processed |-> accepted, rejected |-> rejected, failed_processing |-> failed]
    ELSE LET v == validate_article(arts[i], min_length)
         IN  IF faults[i] = "validate"
             THEN ValidationLoop(arts, i + 1, min_length, faults, accepted,
                                 Append(rejected, RejectProcessingError(arts[i])),
                                 failed + 1)
             ELSE IF ~v.valid
             THEN ValidationLoop(arts, i + 1, min_length, faults, accepted,
                                 Append(rejected, Reject(v.article)), failed)
             ELSE IF faults[i] = "process"
             THEN ValidationLoop(arts, i + 1, min_length, faults, accepted,
                                 Append(rejected, RejectProcessingError(v.article)),
                                 failed + 1)
             ELSE ValidationLoop(arts, i + 1, min_length, faults,
                                 Append(accepted, process_article(v.article)),
                                 rejected, failed)

\* the loop of run_batch that drops the processed articles whose url the
\* store knows or whose (domain, title) key was seen earlier in the list
RECURSIVE StoreDedupLoop(_, _, _, _, _)
StoreDedupLoop(arts, i, processed_urls, seen_domain_title, final_articles) ==
    IF i > Len(arts) THEN final_articles
    ELSE LET article == arts[i]
             title == DedupTitle(article.title)
             byUrl == Truthy(article.url) /\ article.url \in processed_urls
             useKey == ~byUrl /\ Truthy(article.domain) /\ Truthy(title)
             key == DomainTitleKey(article)
             byKey == useKey /\ key \in seen_domain_title
             is_duplicate == byUrl \/ byKey
         IN  StoreDedupLoop(arts, i + 1, processed_urls,
                            IF useKey /\ ~byKey THEN seen_domain_title \cup {key}
                            ELSE seen_domain_title,
                            IF is_duplicate THEN final_articles
                            ELSE Append(final_articles, article))

\* PROCESSING: every fetched article is validated and processed or rejected
\* (also when its validation or processing raises), then the processed ones
\* are filtered against the urls the store returns (none if the query
\* fails); `articles` is not read again afterwards
Processing ==
    /\ pc = "processing"
    /\ \E queried \in BOOLEAN, faults \in FaultChoices(articles) :
          LET sorted == ValidationLoop(articles, 1, min_article_length, faults,
                                       <<>>, <<>>, 0)
              processed_urls == IF queried THEN get_processed_urls(db) ELSE {}
          IN  /\ processed_articles' =
                     StoreDedupLoop(sorted.processed, 1, processed_urls, {}, <<>>)
              /\ rejected_articles' = sorted.rejected
              /\ stats' = [ stats EXCEPT
                              !.failed_processing = @ + sorted.failed_processing,
                              !.validated_articles = Len(sorted.processed) ]
    /\ articles' = <<>>
    /\ pc' = "classifying"
    /\ UNCHANGED <<batch, dbInstance, db, min_article_length, indexSize, run_id,
                   fetch, extractLog, knownAtStart, completeCalls, run_row,
                   storeFault, tracker, markCalls, dedupVars, clsVars, sideVars, callState>>

\* the article with the verdict classify_articles_ai_topics attaches to it
Classified(article, is_ai_topic) ==
    [ url          |-> article.url,
      title        |-> article.title,
      text         |-> article.text,
      domain       |-> article.domain,
      language     |-> article.language,
      date_publish |-> article.date_publish,
      processed_at |-> article.processed_at,
      is_ai_topic  |-> is_ai_topic ]

CountAiTopics(arts) == Cardinality({i \in DOMAIN arts : arts[i].is_ai_topic})

\* where run_batch would go from its handler of a classifier failure if it
\* gave up the batch's articles: to the finalization at its end
AfterClassifierFailureSkipsStore == "finalizing"

\* where run_batch goes from its handler of a classifier failure: on, to
\* the storage step
AfterClassifierFailure == "storing"

\* CLASSIFYING: classify_articles_ai_topics gives every processed article a
\* verdict (False when the classification of the article fails) and
\* run_batch counts the positive ones; or the call raises before its loop
\* (while the classifier is built), no article has an analysis, and
\* run_batch sets the count to 0
Classifying ==
    /\ pc = "classifying"
    /\ \/ /\ \E verdicts \in [DOMAIN processed_articles -> BOOLEAN] :
                LET ai_results == [i \in DOMAIN processed_articles |->
                                      Classified(processed_articles[i], verdicts[i])]
                IN  /\ processed_articles' = ai_results
                    /\ stats' = [ stats EXCEPT
                                    !.ai_topic_count = CountAiTopics(ai_results) ]
          /\ pc' = "storing"
       \/ /\ processed_articles # <<>>
          /\ stats' = [ stats EXCEPT !.ai_topic_count = 0 ]
          /\ pc' = AfterClassifierFailure
          /\ UNCHANGED processed_articles
    /\ UNCHANGED <<batch, dbInstance, db, min_article_length, indexSize, run_id,
                   fetch, articles, rejected_articles, extractLog, knownAtStart,
                   completeCalls, run_row, storeFault, tracker, markCalls, dedupVars,
                   clsVars, sideVars, callState>>

\* store_articles(articles, rejected_articles) with `written` what becomes of
\* its files: None for an empty list of valid articles, else the file names
\* (rejected_file is None without rejected articles or when writing them
\* fails), or StorageError
store_articles(arts, rejected, written) ==
    IF arts = <<>> THEN [raised |-> FALSE, files |-> NoneValue]
    ELSE IF written = "storage_error" THEN [raised |-> TRUE, files |-> NoneValue]
    ELSE [ raised |-> FALSE,
           files  |-> Some([ articles_file |-> TRUE,
                             rejected_file |-> rejected # <<>> /\ written = "all" ]) ]

\* STORING: nothing to do without articles; else store_articles is called
\* and its result unpacked, which raises for None; the lists go to the store
\* when their file was written. Any exception counts every article as
\* failed_storage.
Storing ==
    /\ pc = "storing"
    /\ IF processed_articles = <<>> /\ rejected_articles = <<>>
       THEN UNCHANGED <<db, stats, storeFault>>
       ELSE \E written \in {"all", "rejected_io_error", "storage_error"},
               added \in BOOLEAN, added_rejected \in BOOLEAN :
               LET storage_files == store_articles(processed_articles,
                                                   rejected_articles, written)
                   db1 == IF added
                          THEN add_processed_articles(db, processed_articles)
                          ELSE db
               IN  IF storage_files.raised \/ storage_files.files = NoneValue
                   THEN /\ stats' = [ stats EXCEPT !.failed_storage =
                                         Len(processed_articles) + Len(rejected_articles) ]
                        /\ storeFault' = storage_files.raised
                        /\ UNCHANGED db
                   ELSE /\ stats' = [ stats EXCEPT
                                        !.stored_articles = Len(processed_articles),
                                        !.rejected_articles = Len(rejected_articles) ]
                        /\ IF storage_files.files[1].rejected_file
                           THEN /\ db' = IF added_rejected
                                         THEN add_rejected_articles(db1, rejected_articles)
                                         ELSE db1
                                /\ storeFault' = (~added \/ ~added_rejected)
                           ELSE /\ db' = db1
                                /\ storeFault' = (~added \/ (rejected_articles # <<>>
                                                               /\ written # "all"))
    /\ pc' = "finalizing"
    /\ UNCHANGED <<batch, dbInstance, min_article_length, indexSize, run_id,
                   fetch, articles, processed_articles, rejected_articles,
                   extractLog, knownAtStart, completeCalls, run_row, tracker, markCalls,
                   dedupVars, clsVars, sideVars, callState>>

\* the end of run_batch: the run is finalized and stats returned
Finalize ==
    /\ pc = "finalizing"
    /\ \E completed \in BOOLEAN :
          /\ db' = IF completed THEN complete_pipeline_run(db, run_id) ELSE db
          /\ run_row' = IF completed
                        THEN update_run_row(run_row, db, run_id, stats)
                        ELSE run_row
    /\ completeCalls' = completeCalls + 1
    /\ pc' = "returned"
    /\ UNCHANGED <<batch, dbInstance, min_article_length, indexSize, run_id,
                   stats, fetch, articles, processed_articles, rejected_articles,
                   extractLog, knownAtStart, storeFault, tracker, markCalls,
                   dedupVars, clsVars, sideVars, callState>>

HarnessIdle ==
    /\ markCalls = [d \in TrackerDomains |-> 0]
    /\ candidates = <<>>
    /\ keptIdx = <<>>
    /\ clsInput = NoInput
    /\ clsResult = NoResult
    /\ callState = "input"
    /\ ExternalIdle
    /\ ProcIdle
    /\ SchedIdle
    /\ DashIdle

\* the service starts: nothing stored, the configuration read
Init ==
    /\ HarnessIdle
    /\ tracker = NewTracker(DefaultMaxFailures)
    /\ pc = "idle"
    /\ batch = 0
    /\ dbInstance = FALSE
    /\ db = EmptyDatabase
    /\ min_article_length \in MinLengthChoices
    /\ indexSize = 1
    /\ run_id = NoRun
    /\ stats = InitialStats
    /\ fetch = IdleFetch
    /\ articles = <<>>
    /\ processed_articles = <<>>
    /\ rejected_articles = <<>>
    /\ extractLog = <<>>
    /\ knownAtStart = {}
    /\ completeCalls = 0
    /\ run_row = NoRow
    /\ storeFault = FALSE

\* the domain and row loops of fetch_danish_news and fetch_by_domains
NextFetch == ArticleSearch \/ ParseRow

Next ==
    \/ RunBatchStart
    \/ RetentionElapses
    \/ NextFetch
    \/ FetchReturn
    \/ Processing
    \/ Classifying
    \/ Storing
    \/ Finalize

Spec == Init /\ [][Next]_vars

-----------------------------------------------------------------------------
(* The connector's loops on their own: the first batch of a service with   *)
(* an empty store, from the moment the fetch begins, with an index that    *)
(* lists FetchIndexSize stories of cnn.com                                 *)

FetchIndexSize == 6

InitFetch ==
    /\ HarnessIdle
    /\ tracker = NewTracker(DefaultMaxFailures)
    /\ pc = "fetching"
    /\ batch = 1
    /\ dbInstance = TRUE
    /\ db = start_pipeline_run(EmptyDatabase)
    /\ min_article_length = DefaultMinArticleLength
    /\ indexSize = FetchIndexSize
    /\ run_id = 1
    /\ stats = InitialStats
    /\ fetch = StartFetch
    /\ articles = <<>>
    /\ processed_articles = <<>>
    /\ rejected_articles = <<>>
    /\ extractLog = <<>>
    /\ knownAtStart = {}
    /\ completeCalls = 0
    /\ run_row = NewRow
    /\ storeFault = FALSE

SpecFetch == InitFetch /\ [][NextFetch]_vars

\* the fetch stage to its end: the loops, then the connector's return into
\* run_batch
NextFetchStage == NextFetch \/ FetchReturn

\* the stories of cnn.com the index lists in this specification: as many as
\* the tracker's cap
StageIndexSize == 5

InitFetchStage ==
    /\ HarnessIdle
    /\ tracker = NewTracker(DefaultMaxFailures)
    /\ pc = "fetching"
    /\ batch = 1
    /\ dbInstance = TRUE
    /\ db = start_pipeline_run(EmptyDatabase)
    /\ min_article_length = DefaultMinArticleLength
    /\ indexSize = StageIndexSize
    /\ run_id = 1
    /\ stats = InitialStats
    /\ fetch = StartFetch
    /\ articles = <<>>
    /\ processed_articles = <<>>
    /\ rejected_articles = <<>>
    /\ extractLog = <<>>
    /\ knownAtStart = {}
    /\ completeCalls = 0
    /\ run_row = NewRow
    /\ storeFault = FALSE

SpecFetchStage == InitFetchStage /\ [][NextFetchStage]_vars

-----------------------------------------------------------------------------
(* The batch after a batch that counted failures: the first batch of the   *)
(* service has returned, every query of the index having failed for both   *)
(* domains, and its run is finalized or, if that write failed, still open  *)

FailedBoth ==
    mark_domain_failed(mark_domain_failed(NewTracker(DefaultMaxFailures), D_drdk),
                       D_cnn)

InitRestart ==
    /\ HarnessIdle
    /\ tracker = FailedBoth
    /\ pc = "returned"
    /\ batch = 1
    /\ dbInstance = TRUE
    /\ db \in { start_pipeline_run(EmptyDatabase),
                complete_pipeline_run(start_pipeline_run(EmptyDatabase), 1) }
    /\ min_article_length = DefaultMinArticleLength
    /\ indexSize = 1
    /\ run_id = 1
    /\ stats = InitialStats
    /\ fetch = IdleFetch
    /\ articles = <<>>
    /\ processed_articles = <<>>
    /\ rejected_articles = <<>>
    /\ extractLog = <<>>
    /\ knownAtStart = {}
    /\ completeCalls = 1
    /\ run_row = NewRow
    /\ storeFault = FALSE

SpecRestart == InitRestart /\ [][Next]_vars

-----------------------------------------------------------------------------
(* classify_articles_ai_topics with an API client: each call of the LLM    *)
(* raises, or answers with a JSON object or with other text                *)

\* APIBasedAITopicClassifier.ai_topics
ai_topics ==
    <<
       <<"A", "I", " ", "R", "e", "s", "e", "a", "r", "c", "h", " ", "a",
         "n", "d", " ", "D", "e", "v", "e", "l", "o", "p", "m", "e", "n",
         "t">>,
       <<"A", "I", " ", "E", "t", "h", "i", "c", "s", " ", "a", "n", "d",
         " ", "R", "e", "g", "u", "l", "a", "t", "i", "o", "n", "s">>,
       <<"A", "I", " ", "S", "a", "f", "e", "t", "y", " ", "a", "n", "d",
         " ", "G", "o", "v", "e", "r", "n", "a", "n", "c", "e">>,
       <<"A", "I", " ", "B", "u", "s", "i", "n", "e", "s", "s", " ", "a",
         "n", "d", " ", "I", "n", "d", "u", "s", "t", "r", "y">>,
       <<"A", "I", " ", "L", "a", "n", "g", "u", "a", "g", "e", " ", "M",
         "o", "d", "e", "l", "s", " ", "a", "n", "d", " ", "N", "L", "P">>,
       <<"A", "I", " ", "R", "o", "b", "o", "t", "i", "c", "s", " ", "a",
         "n", "d", " ", "A", "u", "t", "o", "m", "a", "t", "i", "o", "n">>,
       <<"A", "I", " ", "H", "e", "a", "l", "t", "h", "c", "a", "r", "e",
         " ", "a", "n", "d", " ", "M", "e", "d", "i", "c", "a", "l">>,
       <<"A", "I", " ", "E", "d", "u", "c", "a", "t", "i", "o", "n", " ",
         "a", "n", "d", " ", "T", "r", "a", "i", "n", "i", "n", "g">>,
       <<"A", "I", " ", "C", "y", "b", "e", "r", "s", "e", "c", "u", "r",
         "i", "t", "y", " ", "a", "n", "d", " ", "P", "r", "i", "v", "a",
         "c", "y">>,
       <<"A", "I", " ", "C", "o", "m", "p", "u", "t", "e", "r", " ", "V",
         "i", "s", "i", "o", "n">>,
       <<"A", "I", " ", "D", "a", "t", "a", " ", "S", "c", "i", "e", "n",
         "c", "e", " ", "a", "n", "d", " ", "A", "n", "a", "l", "y", "t",
         "i", "c", "s">>,
       <<"A", "I", " ", "N", "e", "u", "r", "a", "l", " ", "N", "e", "t",
         "w", "o", "r", "k", "s", " ", "a", "n", "d", " ", "D", "e", "e",
         "p", " ", "L", "e", "a", "r", "n", "i", "n", "g">>,
       <<"A", "I", " ", "A", "p", "p", "l", "i", "c", "a", "t", "i", "o",
         "n", "s", " ", "a", "n", "d", " ", "D", "e", "p", "l", "o", "y",
         "m", "e", "n", "t">>,
       <<"A", "I", " ", "T", "e", "c", "h", "n", "o", "l", "o", "g", "y",
         " ", "a", "n", "d", " ", "I", "n", "f", "r", "a", "s", "t", "r",
         "u", "c", "t", "u", "r", "e">>
    >>

\* the indicators _parse_openai_response and _parse_anthropic_response look
\* for in the lower-cased response
ResponseIndicators ==
    <<
       <<"t", "r", "u", "e">>,
       <<"y", "e", "s">>,
       <<"a", "i", "-", "r", "e", "l", "a", "t", "e", "d">>,
       <<"a", "r", "t", "i", "f", "i", "c", "i", "a", "l", " ", "i", "n",
         "t", "e", "l", "l", "i", "g", "e", "n", "c", "e">>,
       <<"p", "r", "i", "m", "a", "r", "i", "l", "y", " ", "a", "b", "o",
         "u", "t", " ", "a", "i">>
    >>

\* f"Title: {title}\n\nContent: {text}".strip()
PromptFullText(text, title) ==
    StrStrip(<<"T", "i", "t", "l", "e", ":", " ">> \o title
             \o <<"\n", "\n", "C", "o", "n", "t", "e", "n", "t", ":", " ">> \o text)

\* _extract_topic_from_response: the first topic of ai_topics named in the
\* response, else the last one
RECURSIVE ExtractTopicFrom(_, _)
ExtractTopicFrom(i, response_lower) ==
    IF i > Len(ai_topics) THEN ai_topics[Len(ai_topics)]
    ELSE IF StrContains(response_lower, StrLower(ai_topics[i])) THEN ai_topics[i]
    ELSE ExtractTopicFrom(i + 1, response_lower)

extract_topic_from_response(response_text) ==
    ExtractTopicFrom(1, StrLower(response_text))

Float_0_0 == <<0, 0>>
Float_0_5 == <<5, 0>>
Float_0_7 == <<7, 0>>
Float_1_0 == <<10, 0>>

\* a confidence in the response that is not a number
NotANumber == <<>>

\* response_text[:100]
First100(response_text) ==
    SubSeq(response_text, 1,
           IF Len(response_text) < 100 THEN Len(response_text) ELSE 100)

\* _parse_openai_response and _parse_anthropic_response, which differ in the
\* vendor named in the explanation
parse_response(vendor, response_text, full_text) ==
    LET response_lower == StrLower(response_text)
        is_ai_topic == \E i \in DOMAIN ResponseIndicators :
                          StrContains(response_lower, ResponseIndicators[i])
    IN  [ is_ai_topic |-> is_ai_topic,
          confidence  |-> IF is_ai_topic THEN Float_0_8 ELSE Float_0_7,
          topic       |-> IF is_ai_topic
                          THEN extract_topic_from_response(response_text)
                          ELSE "None",
          explanation |-> <<vendor, "manual parsing", First100(response_text)>>,
          keywords    |-> extract_keywords_from_text(full_text) ]

\* the handler of the per-article try block of classify_articles_ai_topics
FailedAnalysis ==
    [ is_ai_topic |-> FALSE,
      confidence  |-> Float_0_0,
      topic       |-> "None",
      explanation |-> <<"Classification failed">>,
      keywords    |-> <<>> ]

\* an `except` of _classify_with_openai that gave the failure away instead
\* of calling the fallback
FailedClassification(text, title) == FailedAnalysis

\* `except Exception` of _classify_with_openai and _classify_with_anthropic:
\* return self._classify_with_fallback(text, title)
OnExternalFailure(text, title) == classify_with_fallback(text, title)

\* _classify_with_openai and _classify_with_anthropic for a call of the API
\* that ends as `response` tells: an exception, a JSON object (its values
\* are taken as they are, a missing confidence is 0.5, missing keywords
\* are []), or text that is parsed by hand
classify_with_api(vendor, text, title, response) ==
    IF response.kind = "error" THEN OnExternalFailure(text, title)
    ELSE IF response.kind = "json"
    THEN [ is_ai_topic |-> response.is_ai_topic,
           confidence  |-> IF response.confidence = NoneValue THEN Float_0_5
                           ELSE response.confidence[1],
           topic       |-> "None",
           explanation |-> <<vendor, "AI classification completed">>,
           keywords    |-> IF response.keywords = NoneValue THEN <<>>
                           ELSE response.keywords[1] ]
    ELSE parse_response(vendor, response.response_text,
                        PromptFullText(text, title))

\* APIBasedAITopicClassifier.classify_article
classify_article(openai, anthropic, text, title, response) ==
    IF openai THEN classify_with_api("OpenAI", text, title, response)
    ELSE IF anthropic THEN classify_with_api("Claude", text, title, response)
    ELSE classify_with_fallback(text, title)

\* the analysis of an article without text
NoTextAnalysis ==
    [ is_ai_topic |-> FALSE,
      confidence  |-> Float_0_0,
      topic       |-> "None",
      explanation |-> <<"No text content available">>,
      keywords    |-> <<>> ]

\* f"{result.confidence:.2f}" in the log line after the classification
\* raises for a confidence that is not a number
FormatRaises(result) == result.confidence = NotANumber

\* no call of the API was made
NoResponse ==
    [ kind |-> "none", is_ai_topic |-> FALSE, confidence |-> NoneValue,
      keywords |-> NoneValue, response_text |-> <<>> ]

SixKeywords == << <<"a">>, <<"b">>, <<"c">>, <<"d">>, <<"e">>, <<"f">> >>

ResponseConfidences ==
    {NoneValue, Some(<<9, 0>>), Some(<<15, 0>>), Some(NotANumber)}

ResponseKeywords == {NoneValue, Some(SixKeywords)}

ResponseTexts == {<<"Y", "e", "s", ",", " ", "A", "I", "-", "r", "e", "l", "a", "t", "e", "d">>, <<"N", "o">>}

\* what a call of the API can end as
LLMResponses ==
    {[NoResponse EXCEPT !.kind = "error"]}
    \cup {[NoResponse EXCEPT !.kind = "json", !.is_ai_topic = b,
                             !.confidence = c, !.keywords = k] :
             b \in BOOLEAN, c \in ResponseConfidences, k \in ResponseKeywords}
    \cup {[NoResponse EXCEPT !.kind = "text", !.response_text = t] :
             t \in ResponseTexts}

\* the articles of the list: without text, about AI, about something else
ExtArticles ==
    { [text |-> <<>>, title |-> W_news],
      [text |-> JoinWords(<<W_ml, W_openai, W_chatgpt>>), title |-> <<>>],
      [text |-> W_news, title |-> W_ml] }

MaxClassified == 2

InitExternal ==
    /\ openai_client \in BOOLEAN
    /\ anthropic_client \in BOOLEAN
    /\ to_classify \in BoundedSeq(ExtArticles, MaxClassified)
    /\ classified_articles = <<>>
    /\ tracker = NewTracker(DefaultMaxFailures)
    /\ markCalls = [d \in TrackerDomains |-> 0]
    /\ candidates = <<>>
    /\ keptIdx = <<>>
    /\ clsInput = NoInput
    /\ clsResult = NoResult
    /\ callState = "input"
    /\ PipelineIdle
    /\ ProcIdle
    /\ SchedIdle
    /\ DashIdle

\* what classify_articles_ai_topics did with one article: the article, what
\* the API call ended as, what classify_article returned (if it was
\* called), the ai_topic_analysis attached, and whether time.sleep(0.1)
\* followed
Outcome(article, response, result, analysis, slept) ==
    [ text     |-> article.text,
      title    |-> article.title,
      response |-> response,
      result   |-> result,
      analysis |-> analysis,
      slept    |-> slept ]

\* One pass of the loop of classify_articles_ai_topics
ClassifyArticle ==
    /\ Len(classified_articles) < Len(to_classify)
    /\ LET article == to_classify[Len(classified_articles) + 1]
           has_client == openai_client \/ anthropic_client
       IN  IF article.text = <<>>
           THEN classified_articles' =
                   Append(classified_articles,
                          Outcome(article, NoResponse, NoneValue,
                                  NoTextAnalysis, FALSE))
           ELSE \E response \in (IF has_client THEN LLMResponses
                                 ELSE {NoResponse}) :
                  \E result \in { classify_article(openai_client, anthropic_client,
                                                   article.text, article.title,
                                                   response) } :
                     classified_articles' =
                        Append(classified_articles,
                               IF FormatRaises(result)
                               THEN Outcome(article, response, Some(result),
                                            FailedAnalysis, FALSE)
                               ELSE Outcome(article, response, Some(result),
                                            result, has_client))
    /\ UNCHANGED <<openai_client, anthropic_client, to_classify, clsVars,
                   callState, trackerVars, dedupVars, pipeVars, procVars,
                   schedVars, dashVars>>

NextExternal == ClassifyArticle

SpecExternal == InitExternal /\ [][NextExternal]_vars

-----------------------------------------------------------------------------
(* process_article on the characters of the fields. An article is a        *)
(* function from its keys to strings; "U+FB01" stands for the ligature fi, *)
(* which NFKC replaces by "f" "i", "U+D800" for a lone surrogate, which    *)
(* UTF-8 cannot encode.                                                    *)

Ligature == "U+FB01"
Surrogate == "U+D800"

\* the value None of a key
PyNone == <<"None">>

\* unicodedata.normalize('NFKC', value)
RECURSIVE NFKC(_)
NFKC(value) ==
    IF value = <<>> THEN <<>>
    ELSE (IF Head(value) = Ligature THEN <<"f", "i">> ELSE <<Head(value)>>)
         \o NFKC(Tail(value))

\* an encoder that skips the first character it cannot encode and keeps
\* the later ones
Utf8DropFirstInvalid(value) ==
    IF \E i \in DOMAIN value : value[i] = Surrogate
    THEN LET first == CHOOSE i \in DOMAIN value :
                         /\ value[i] = Surrogate
                         /\ \A j \in 1..(i - 1) : value[j] # Surrogate
         IN  SubSeq(value, 1, first - 1) \o SubSeq(value, first + 1, Len(value))
    ELSE value

\* value.encode('utf-8', errors='ignore').decode('utf-8'): every character
\* UTF-8 cannot encode is left out
Utf8RoundTrip(value) ==
    LET Encodable(c) == c # Surrogate
    IN  SelectSeq(value, Encodable)

\* what the loop over the string fields leaves in processed[key]: the NFKC
\* form is assigned first and then replaced by the round trip of `value`
NormalizeField(value) ==
    LET assignments == <<NFKC(value), Utf8RoundTrip(value)>>
    IN  assignments[Len(assignments)]

\* generate_content_hash: the MD5 digest, a string that tells texts apart
generate_content_hash(content) == <<"md5:">> \o content

\* process_article at time `now`: keys with None are dropped, every string
\* is normalized, content_hash is computed of a non-empty text and
\* processed_at is set
process_article_fields(article, now) ==
    LET kept == {k \in DOMAIN article : article[k] # PyNone}
        processed == [k \in kept |-> NormalizeField(article[k])]
        hashed == "text" \in kept /\ processed["text"] # <<>>
        keys == kept \cup (IF hashed THEN {"content_hash"} ELSE {})
                     \cup {"processed_at"}
    IN  [k \in keys |->
            IF k = "processed_at" THEN now
            ELSE IF k = "content_hash" /\ hashed
                 THEN generate_content_hash(processed["text"])
            ELSE processed[k]]

ProcChars == {"a", Ligature, Surrogate}

MaxFieldLen == 3

\* datetime.now().isoformat() at the first and at the second call
ProcessTimes == << <<"t", "1">>, <<"t", "2">> >>

ProcArticles ==
    { [k \in {"url", "title", "text", "language", "date_publish"} |->
         CASE k = "url" -> <<"h", "t", "t", "p", "s", ":", "/", "/", "x">>
           [] k = "title" -> title
           [] k = "text" -> text
           [] k = "language" -> language
           [] OTHER -> <<"2", "0", "2", "4">>] :
      title \in [1..1 -> ProcChars],
      text \in BoundedSeq(ProcChars, MaxFieldLen) \ {<<>>},
      language \in {PyNone, <<"e", "n">>} }

InitProcess ==
    /\ proc_article \in ProcArticles
    /\ proc_results = <<>>
    /\ tracker = NewTracker(DefaultMaxFailures)
    /\ markCalls = [d \in TrackerDomains |-> 0]
    /\ candidates = <<>>
    /\ keptIdx = <<>>
    /\ clsInput = NoInput
    /\ clsResult = NoResult
    /\ callState = "input"
    /\ PipelineIdle
    /\ ExternalIdle
    /\ SchedIdle
    /\ DashIdle

\* process_article(article)
ProcessFirst ==
    /\ proc_results = <<>>
    /\ proc_results' = <<process_article_fields(proc_article, ProcessTimes[1])>>
    /\ UNCHANGED <<proc_article, trackerVars, dedupVars, clsVars, callState,
                   pipeVars, extVars, schedVars, dashVars>>

\* process_article(process_article(article))
ProcessAgain ==
    /\ Len(proc_results) = 1
    /\ proc_results' = Append(proc_results,
                              process_article_fields(proc_results[1],
                                                     ProcessTimes[2]))
    /\ UNCHANGED <<proc_article, trackerVars, dedupVars, clsVars, callState,
                   pipeVars, extVars, schedVars, dashVars>>

NextProcess == ProcessFirst \/ ProcessAgain

SpecProcess == InitProcess /\ [][NextProcess]_vars

-----------------------------------------------------------------------------
(* NewsScheduler: the caller's thread calls start, stop and run_job_now    *)
(* one after the other; start spawns the scheduler thread, run_job_now a   *)
(* job thread; the interval of the scrape job elapses at any time          *)

MaxSchedulerThreads == 3
MaxManualJobs == 2

\* what no method of NewsScheduler touches
notSchedVars ==
    <<trackerVars, dedupVars, clsVars, callState, pipeVars, extVars, procVars,
      dashVars>>

\* start() while not running, up to its call of scheduled_scrape_job:
\* setup_schedule registers the scrape job, the initial job begins in the
\* caller's thread
StartCall ==
    /\ threads.caller = "idle"
    /\ ~scheduler.running
    /\ threads.in_loop + threads.in_job < MaxSchedulerThreads
    /\ scheduler' = [scheduler EXCEPT !.scrape_jobs = @ + 1]
    /\ threads' = [threads EXCEPT !.caller = "start_job"]
    /\ UNCHANGED notSchedVars

\* the initial job returns; start() sets running and starts the scheduler
\* thread
StartJobDone ==
    /\ threads.caller = "start_job"
    /\ scheduler' = [scheduler EXCEPT !.running = TRUE]
    /\ threads' = [threads EXCEPT !.caller = "idle", !.in_loop = @ + 1]
    /\ UNCHANGED notSchedVars

\* stop() while running: self.running = False
StopCall ==
    /\ threads.caller = "idle"
    /\ scheduler.running
    /\ scheduler' = [scheduler EXCEPT !.running = FALSE]
    /\ threads' = [threads EXCEPT !.caller = "stopping"]
    /\ UNCHANGED notSchedVars

\* stop() goes on: schedule.clear(), then join(timeout=5), which returns
\* when the thread ends or after 5 seconds
StopClear ==
    /\ threads.caller = "stopping"
    /\ scheduler' = [scheduler EXCEPT !.scrape_jobs = 0, !.due = FALSE]
    /\ threads' = [threads EXCEPT !.caller = "idle"]
    /\ UNCHANGED notSchedVars

\* the interval of the registered scrape job has passed
IntervalElapses ==
    /\ scheduler.scrape_jobs > 0
    /\ ~scheduler.due
    /\ scheduler' = [scheduler EXCEPT !.due = TRUE]
    /\ UNCHANGED <<threads, notSchedVars>>

\* a scheduler thread finds self.running false and ends
SchedulerExit ==
    /\ threads.in_loop > 0
    /\ ~scheduler.running
    /\ threads' = [threads EXCEPT !.in_loop = @ - 1]
    /\ UNCHANGED <<scheduler, notSchedVars>>

\* a scheduler thread finds self.running true and schedule.run_pending()
\* begins the scrape job, which is due
SchedulerRunPending ==
    /\ threads.in_loop > 0
    /\ scheduler.running
    /\ scheduler.scrape_jobs > 0
    /\ scheduler.due
    /\ threads' = [threads EXCEPT !.in_loop = @ - 1, !.in_job = @ + 1]
    /\ UNCHANGED <<scheduler, notSchedVars>>

\* the job run by run_pending returns; the job, if still registered, is
\* scheduled for its next run, and the thread sleeps a second
SchedulerJobDone ==
    /\ threads.in_job > 0
    /\ threads' = [threads EXCEPT !.in_job = @ - 1, !.in_loop = @ + 1]
    /\ scheduler' = [scheduler EXCEPT !.due = FALSE]
    /\ UNCHANGED notSchedVars

\* run_job_now(): a new thread begins scheduled_scrape_job
RunJobNow ==
    /\ threads.caller = "idle"
    /\ threads.manual < MaxManualJobs
    /\ threads' = [threads EXCEPT !.manual = @ + 1]
    /\ UNCHANGED <<scheduler, notSchedVars>>

\* the job of a thread of run_job_now returns and the thread ends
ManualJobDone ==
    /\ threads.manual > 0
    /\ threads' = [threads EXCEPT !.manual = @ - 1]
    /\ UNCHANGED <<scheduler, notSchedVars>>

InitScheduler ==
    /\ scheduler = NewScheduler
    /\ threads = NoThreads
    /\ tracker = NewTracker(DefaultMaxFailures)
    /\ markCalls = [d \in TrackerDomains |-> 0]
    /\ candidates = <<>>
    /\ keptIdx = <<>>
    /\ clsInput = NoInput
    /\ clsResult = NoResult
    /\ callState = "input"
    /\ PipelineIdle
    /\ ExternalIdle
    /\ ProcIdle
    /\ DashIdle

NextScheduler ==
    \/ StartCall
    \/ StartJobDone
    \/ StopCall
    \/ StopClear
    \/ IntervalElapses
    \/ SchedulerExit
    \/ SchedulerRunPending
    \/ SchedulerJobDone
    \/ RunJobNow
    \/ ManualJobDone

SpecScheduler == InitScheduler /\ [][NextScheduler]_vars

-----------------------------------------------------------------------------
(* The dashboard's pipeline control (streamlit_app.py): every session runs  *)
(* the script in a thread of its own; the sessions share the PID file and   *)
(* the subprocesses, and nothing serializes their steps                     *)

MaxSpawns == 3

\* what the pipeline control does not touch
notDashVars ==
    <<trackerVars, dedupVars, clsVars, callState, pipeVars, extVars, procVars,
      schedVars>>

\* _read_pid(): the number in the PID file, 0 without the file
read_pid == pid_file

\* _is_pid_running(pid): os.kill(pid, 0) finds the process
is_pid_running(pid) == pid > 0 /\ pid \in running_pids

\* the script runs down to the buttons: the status shown is that of the pid
\* in the PID file, and it enables one of the two buttons
Render(s) ==
    /\ sessions[s].pc \in {"render", "shown"}
    /\ sessions' = [sessions EXCEPT ![s] =
                       [ pc     |-> "shown",
                         status |-> IF is_pid_running(read_pid) THEN "running"
                                    ELSE "stopped",
                         pid    |-> NoPid ]]
    /\ UNCHANGED <<pid_file, running_pids, spawned, notDashVars>>

\* the start button, enabled while the status shown is "stopped":
\* _start_pipeline_subprocess reads the PID file
StartReadPid(s) ==
    /\ sessions[s].pc = "shown"
    /\ sessions[s].status = "stopped"
    /\ sessions' = [sessions EXCEPT ![s].pc = "start_check", ![s].pid = read_pid]
    /\ UNCHANGED <<pid_file, running_pids, spawned, notDashVars>>

\* `if _is_pid_running(existing_pid): return True`, then st.rerun()
StartCheckPid(s) ==
    /\ sessions[s].pc = "start_check"
    /\ sessions' = [sessions EXCEPT ![s] =
                       IF is_pid_running(sessions[s].pid)
                       THEN [@ EXCEPT !.pc = "render", !.pid = NoPid]
                       ELSE [@ EXCEPT !.pc = "start_spawn", !.pid = NoPid]]
    /\ UNCHANGED <<pid_file, running_pids, spawned, notDashVars>>

\* subprocess.Popen([sys.executable, 'main.py'], ...)
StartSpawn(s) ==
    /\ sessions[s].pc = "start_spawn"
    /\ spawned < MaxSpawns
    /\ spawned' = spawned + 1
    /\ running_pids' = running_pids \cup {spawned + 1}
    /\ sessions' = [sessions EXCEPT ![s].pc = "start_write", ![s].pid = spawned + 1]
    /\ UNCHANGED <<pid_file, notDashVars>>

\* pid_file.write_text(str(proc.pid)), return True, then st.rerun()
StartWritePid(s) ==
    /\ sessions[s].pc = "start_write"
    /\ pid_file' = sessions[s].pid
    /\ sessions' = [sessions EXCEPT ![s].pc = "render", ![s].pid = NoPid]
    /\ UNCHANGED <<running_pids, spawned, notDashVars>>

\* the stop button, enabled while the status shown is "running":
\* _stop_pipeline_subprocess reads the PID file and returns if it holds no pid
StopReadPid(s) ==
    /\ sessions[s].pc = "shown"
    /\ sessions[s].status = "running"
    /\ sessions' = [sessions EXCEPT ![s] =
                       IF read_pid <= 0
                       THEN [@ EXCEPT !.pc = "render", !.pid = NoPid]
                       ELSE [@ EXCEPT !.pc = "stop_term", !.pid = read_pid]]
    /\ UNCHANGED <<pid_file, running_pids, spawned, notDashVars>>

\* os.kill(pid, SIGTERM) and the second of sleep: the subprocess, if there
\* is one, ends within that second or does not
StopTerminate(s) ==
    /\ sessions[s].pc = "stop_term"
    /\ \E ends \in BOOLEAN :
          running_pids' = IF ends THEN running_pids \ {sessions[s].pid}
                          ELSE running_pids
    /\ sessions' = [sessions EXCEPT ![s].pc = "stop_kill"]
    /\ UNCHANGED <<pid_file, spawned, notDashVars>>

\* `if _is_pid_running(pid): os.kill(pid, SIGKILL)`
StopKill(s) ==
    /\ sessions[s].pc = "stop_kill"
    /\ running_pids' = running_pids \ {sessions[s].pid}
    /\ sessions' = [sessions EXCEPT ![s].pc = "stop_unlink"]
    /\ UNCHANGED <<pid_file, spawned, notDashVars>>

\* pid_file.unlink(), return True, then st.rerun()
StopUnlink(s) ==
    /\ sessions[s].pc = "stop_unlink"
    /\ pid_file' = NoPid
    /\ sessions' = [sessions EXCEPT ![s].pc = "render", ![s].pid = NoPid]
    /\ UNCHANGED <<running_pids, spawned, notDashVars>>

InitDashboard ==
    /\ DashIdle
    /\ tracker = NewTracker(DefaultMaxFailures)
    /\ markCalls = [d \in TrackerDomains |-> 0]
    /\ candidates = <<>>
    /\ keptIdx = <<>>
    /\ clsInput = NoInput
    /\ clsResult = NoResult
    /\ callState = "input"
    /\ PipelineIdle
    /\ ExternalIdle
    /\ ProcIdle
    /\ scheduler = NewScheduler
    /\ threads = NoThreads

NextDashboard ==
    \E s \in Sessions :
        \/ Render(s)
        \/ StartReadPid(s)
        \/ StartCheckPid(s)
        \/ StartSpawn(s)
        \/ StartWritePid(s)
        \/ StopReadPid(s)
        \/ StopTerminate(s)
        \/ StopKill(s)
        \/ StopUnlink(s)

SpecDashboard == InitDashboard /\ [][NextDashboard]_vars

-----------------------------------------------------------------------------
(* Properties of the batch                                                 *)

AfterProcessing == pc \in {"classifying", "storing", "finalizing", "returned"}

OutputUrls == UrlsOf(processed_articles) \cup UrlsOf(rejected_articles)

\* C2: a url the store held when the batch began appears neither among the
\* accepted nor among the rejected articles of the batch
C2_NoKnownUrlInOutput ==
    AfterProcessing => OutputUrls \cap knownAtStart = {}

\* C3: run_batch never raises to its caller
C3_NeverRaises == pc # "raised"

C7_KnownUrlNotExtracted ==
    \A i \in DOMAIN extractLog : extractLog[i].url \notin knownAtStart

\* number of failed extractions of the domain before call i of the log
FailuresBefore(i) ==
    Cardinality({j \in 1..(i - 1) : /\ extractLog[j].domain = extractLog[i].domain
                                    /\ extractLog[j].failed})

\* C6: the extractor is not called for a candidate of a domain for which
\* max_failures_per_domain (5) extractions have failed earlier in the batch
C6_SkippedAfterFiveFailures ==
    \A i \in DOMAIN extractLog : FailuresBefore(i) < DefaultMaxFailures

C10_RejectedPersisted ==
    (/\ pc = "returned"
     /\ stats.validated_articles = 0
     /\ rejected_articles # <<>>
     /\ ~storeFault)
    => UrlsOf(rejected_articles) \subseteq db.rejected

\* the list in which the validation loop leaves the article at position i
LoopOutcome(arts, i, sorted) ==
    <<arts[i].url \in UrlsOf(sorted.processed),
      arts[i].url \in UrlsOf(sorted.rejected)>>

\* C11: whatever raises in the validation loop, every fetched article ends
\* in exactly one of the two lists of the loop, every rejected one has a
\* rejection_reason, and an article for which nothing raises ends where it
\* ends when nothing raises at all; after the loop the validated and the
\* rejected articles are as many as the fetched ones
C11_EveryCandidateRouted ==
    /\ pc = "processing" =>
          \A faults \in FaultChoices(articles) :
             LET sorted == ValidationLoop(articles, 1, min_article_length, faults,
                                          <<>>, <<>>, 0)
                 calm == ValidationLoop(articles, 1, min_article_length,
                                        NoFaults(articles), <<>>, <<>>, 0)
             IN  /\ Len(sorted.processed) + Len(sorted.rejected) = Len(articles)
                 /\ \A i \in DOMAIN articles :
                       /\ LoopOutcome(articles, i, sorted) \in
                             {<<TRUE, FALSE>>, <<FALSE, TRUE>>}
                       /\ faults[i] = "none" =>
                             LoopOutcome(articles, i, sorted) =
                                LoopOutcome(articles, i, calm)
                 /\ \A j \in DOMAIN sorted.rejected :
                       sorted.rejected[j].rejection_reason # ""
    /\ AfterProcessing =>
          /\ stats.validated_articles + Len(rejected_articles) = stats.fetched_articles
          /\ \A j \in DOMAIN rejected_articles :
                rejected_articles[j].rejection_reason # ""

\* an exception was caught for the first of two fetched articles, and the
\* loop went on to validate and process the second
C11_Witness ==
    /\ pc = "classifying"
    /\ stats.fetched_articles = 2
    /\ stats.failed_processing = 1
    /\ stats.validated_articles = 1
    /\ Len(rejected_articles) = 1
    /\ rejected_articles[1].rejection_reason = "processing_error"
    /\ rejected_articles[1].domain = D_drdk

\* C12: when a write of the storage step failed (store_articles raised, the
\* file of the rejected articles could not be written, or a write to the
\* store did not commit) and run_batch has returned, failed_storage is not
\* zero and the run was finalized
C12_StorageFailureCounted ==
    (pc = "returned" /\ storeFault) =>
       /\ stats.failed_storage > 0
       /\ completeCalls = 1

\* a stage of the batch failed as a whole: run_batch counted a failed fetch
\* or a failed storage step
StageFailed == stats.failed_fetching > 0 \/ stats.failed_storage > 0

\* C13: when run_batch has returned, the status of the run it opened is
\* "failed" if a stage failed and "completed" if none did, and never
\* "running"
C13_StatusReflectsFailure ==
    (pc = "returned" /\ run_id \in DOMAIN db.runs) =>
       db.runs[run_id].status = IF StageFailed THEN "failed" ELSE "completed"

\* the run of a batch whose storage step failed is completed
C13_CompletedAfterFailure ==
    /\ pc = "returned"
    /\ run_id \in DOMAIN db.runs
    /\ stats.failed_storage > 0
    /\ db.runs[run_id].status = "completed"

\* the first batch of the service ended the way SpecRestart begins
RestartReached ==
    /\ pc = "returned"
    /\ batch = 1
    /\ tracker = FailedBoth
    /\ dbInstance
    /\ db = complete_pipeline_run(start_pipeline_run(EmptyDatabase), 1)
    /\ min_article_length = DefaultMinArticleLength
    /\ run_id = 1
    /\ stats = InitialStats
    /\ fetch = IdleFetch
    /\ articles = <<>> /\ processed_articles = <<>> /\ rejected_articles = <<>>
    /\ extractLog = <<>> /\ knownAtStart = {}
    /\ completeCalls = 1 /\ ~storeFault

Unclassified ==
    /\ processed_articles # <<>>
    /\ "is_ai_topic" \notin DOMAIN processed_articles[1]

\* C15: when classify_articles_ai_topics raises, run_batch goes on to the
\* storage step with every processed article and ai_topic_count 0; the
\* count stays 0, the store is asked to hold every one of the articles, and
\* the batch is finalized and returns
C15_ClassifierFailureDegrades ==
    /\ [][(pc = "classifying" /\ Unclassified') =>
             /\ pc' = "storing"
             /\ stats'.ai_topic_count = 0
             /\ processed_articles' = processed_articles]_vars
    /\ []((Unclassified /\ pc \in {"storing", "finalizing", "returned"}) =>
             stats.ai_topic_count = 0)
    /\ []((Unclassified /\ pc \in {"finalizing", "returned"}) =>
             \/ stats.stored_articles = Len(processed_articles)
             \/ stats.failed_storage > 0)
    /\ []((Unclassified /\ pc = "returned") => completeCalls = 1)
    /\ []((Unclassified /\ pc = "returned" /\ ~storeFault) =>
             UrlsOf(processed_articles) \subseteq db.processed)

\* a batch whose classifier raised has stored its article and returned
C15_Witness ==
    /\ Unclassified
    /\ pc = "returned"
    /\ stats.ai_topic_count = 0
    /\ stats.stored_articles = Len(processed_articles)
    /\ UrlsOf(processed_articles) \subseteq db.processed
    /\ completeCalls = 1

-----------------------------------------------------------------------------
(* Properties of the classifier with an API client                         *)

\* a confidence within [0, 1]
InUnitInterval(c) ==
    /\ c # NotANumber
    /\ ~FloatLess(c, Float_0_0)
    /\ ~FloatLess(Float_1_0, c)

\* C16: every result classify_article returned has a confidence within
\* [0, 1] and at most 5 keywords
C16_ResultWithinContract ==
    \A i \in DOMAIN classified_articles :
       LET e == classified_articles[i]
       IN  e.result # NoneValue =>
              /\ InUnitInterval(e.result[1].confidence)
              /\ Len(e.result[1].keywords) <= 5

\* the result came from the external classifier: a client is configured and
\* its call returned a response
ExternalSuccess(e) == e.response.kind \in {"json", "text"}

\* C17: time.sleep(0.1) follows an article only if the external classifier
\* classified it; it follows no article whose result is the fallback's
C17_DelayOnlyAfterExternalSuccess ==
    \A i \in DOMAIN classified_articles :
       classified_articles[i].slept => ExternalSuccess(classified_articles[i])

\* C18: when the call of the API fails, classify_article returns a result,
\* the one classify_with_fallback gives for the same text and title, and
\* that result is the analysis attached to the article
C18_FailureFallsBack ==
    \A i \in DOMAIN classified_articles :
       LET e == classified_articles[i]
       IN  e.response.kind = "error" =>
              /\ e.result = Some(classify_with_fallback(e.text, e.title))
              /\ e.analysis = e.result[1]

\* the API failed for an article about AI, which got the fallback's verdict:
\* three terms found, an AI topic
C18_Witness ==
    \E i \in DOMAIN classified_articles :
       LET e == classified_articles[i]
       IN  /\ openai_client
           /\ e.response.kind = "error"
           /\ e.analysis.is_ai_topic
           /\ e.analysis.confidence = <<7, 1>>
           /\ e.analysis.explanation[1] = "Fallback classification"

-----------------------------------------------------------------------------
(* Properties of process_article and of NewsScheduler                      *)

\* C19: processing a processed article again changes nothing but
\* processed_at: the keys are the same and so is every other value,
\* content_hash included
C19_ProcessIdempotent ==
    Len(proc_results) = 2 =>
       /\ DOMAIN proc_results[2] = DOMAIN proc_results[1]
       /\ \A k \in DOMAIN proc_results[1] \ {"processed_at"} :
             proc_results[2][k] = proc_results[1][k]

\* an article with two lone surrogates and a ligature in its text and no
\* language was processed twice; the first pass took the surrogates out
C19_Witness ==
    /\ Len(proc_results) = 2
    /\ proc_article["text"] = <<Surrogate, Ligature, Surrogate>>
    /\ proc_article["language"] = PyNone
    /\ proc_results[1]["text"] = <<Ligature>>
    /\ proc_results[2]["content_hash"] = proc_results[1]["content_hash"]
    /\ proc_results[2]["processed_at"] # proc_results[1]["processed_at"]

\* the executions of scheduled_scrape_job in progress
JobsInProgress ==
    (IF threads.caller = "start_job" THEN 1 ELSE 0)
    + threads.in_job + threads.manual

\* C20: at no time are two executions of the job in progress
C20_NoOverlappingJobs == JobsInProgress <= 1

-----------------------------------------------------------------------------
(* Properties of the duplicate removal against the store                   *)

BeforeStoring == pc \in {"classifying", "storing"}

\* the (normalized domain, title) key of the article the store holds under
\* a url: its title and domain columns are those the index lists for the url
StoredKey(url) == DomainTitleKey(IndexRow(url))

\* the url half of C21: no processed candidate has a url the store holds
KnownUrlRemoved ==
    BeforeStoring =>
        \A i \in DOMAIN processed_articles :
            processed_articles[i].url \notin get_processed_urls(db)

\* the key half of C21: no processed candidate has the (normalized domain,
\* lowercased title) key of a processed article the store holds
KnownKeyRemoved ==
    BeforeStoring =>
        \A i \in DOMAIN processed_articles :
            \A url \in db.processed :
                DomainTitleKey(processed_articles[i]) # StoredKey(url)

\* C21: when run_batch comes to store, no processed candidate is left whose
\* url the store knows, and none whose (normalized domain, lowercased title)
\* key is that of an article stored by an earlier batch
C21_StoreDuplicatesRemoved == KnownUrlRemoved /\ KnownKeyRemoved

-----------------------------------------------------------------------------
(* Properties of the finalized run                                         *)

RunFinalized ==
    /\ pc = "returned"
    /\ run_id \in DOMAIN db.runs
    /\ db.runs[run_id].status = "completed"
    /\ run_row # NoRow

\* C22: the row of a finalized run carries the counts of the statistics
\* record run_batch returns: fetched, validated/processed, stored and
\* ai_topic_count
C22_RunCarriesCounts ==
    RunFinalized =>
        /\ run_row[1].articles_fetched = stats.fetched_articles
        /\ run_row[1].articles_processed = stats.validated_articles
        /\ run_row[1].articles_stored = stats.stored_articles
        /\ run_row[1].ai_topic_count = stats.ai_topic_count

\* C22 without the processed column: the other three counts are carried
RunCarriesOtherCounts ==
    RunFinalized =>
        /\ run_row[1].articles_fetched = stats.fetched_articles
        /\ run_row[1].articles_stored = stats.stored_articles
        /\ run_row[1].ai_topic_count = stats.ai_topic_count

-----------------------------------------------------------------------------
(* Properties of the connector's length check                              *)

\* the connector is about to parse a row
RowAtHand == pc = "fetching" /\ fetch.in_rows /\ fetch.rows # <<>>

\* For the row at hand and every result of the extractor: if the extractor
\* is called, the candidate is accepted exactly when the extraction gave a
\* text of at least min_length characters, and is otherwise dropped with a
\* failure marked for its domain
AcceptsFrom(min_length) ==
    \A ext \in ExtractionResults :
        LET row == Head(fetch.rows)
            r == parse_gdeltdoc_dataframe_row(
                     tracker, row,
                     ProcessedUrlsArgument(get_processed_urls(db)), ext)
        IN  r.extracted =>
               /\ (r.article # NoArticle) <=> (ext # NoText /\ ext.raw >= min_length)
               /\ (r.article = NoArticle) =>
                     /\ r.failed
                     /\ r.tracker = mark_domain_failed(tracker, UrlDomain(row.url))

\* C23: whatever min_article_length is configured, the connector accepts a
\* candidate whose extraction succeeded exactly when its text has at least
\* min_article_length characters; otherwise it marks the domain failed and
\* drops the candidate
C23_ConnectorUsesConfiguredLength == RowAtHand => AcceptsFrom(min_article_length)

\* the same with the connector's own threshold in place of the configured
\* one
ConnectorUsesFixedLength == RowAtHand => AcceptsFrom(ConnectorMinLength)

-----------------------------------------------------------------------------
(* Properties of the tracker's counts                                      *)

\* C24: the failure count the tracker holds for a domain never exceeds
\* max_failures_per_domain, whatever the cap and the calls
C24_CountWithinCap ==
    \A d \in DOMAIN tracker.domain_failure_counts :
        tracker.domain_failure_counts[d] <= tracker.max_failures_per_domain

\* the same for the trackers with a cap of at least 2
CountWithinCapFromTwo ==
    tracker.max_failures_per_domain >= 2 => C24_CountWithinCap

-----------------------------------------------------------------------------
(* Properties of the order of deduplication                                *)

\* candidate j shares its url, or else its (normalized domain, lowercased
\* title) key, with candidate i
SharesUrlOrKey(i, j) ==
    \/ SameUrl(candidates[i], candidates[j])
    \/ SameDomainTitle(candidates[i], candidates[j])

\* C25: the survivors are a subsequence of the input in its order; the
\* first candidate survives; every dropped candidate shares its url or its
\* key with an earlier candidate that survives; a candidate that shares
\* neither with any earlier survivor is kept
C25_FirstSeenWins ==
    callState = "done" =>
        /\ \A k \in 1..Len(keptIdx) : keptIdx[k] \in 1..Len(candidates)
        /\ \A k \in 1..(Len(keptIdx) - 1) : keptIdx[k] < keptIdx[k + 1]
        /\ candidates # <<>> => Survives(1)
        /\ \A j \in 1..Len(candidates) :
              /\ ~Survives(j) =>
                    \E i \in 1..(j - 1) : Survives(i) /\ SharesUrlOrKey(i, j)
              /\ (\A i \in 1..(j - 1) : Survives(i) => ~SharesUrlOrKey(i, j))
                    => Survives(j)

\* C25 witness: of three candidates the second has the url of the first and
\* another title and is dropped, the third shares neither url nor key with
\* the first and is kept
C25_Witness ==
    /\ callState = "done"
    /\ Len(candidates) = 3
    /\ SameUrl(candidates[1], candidates[2])
    /\ ~SameDomainTitle(candidates[1], candidates[2])
    /\ ~SharesUrlOrKey(1, 3)
    /\ keptIdx = <<1, 3>>

-----------------------------------------------------------------------------
(* Properties of the stored sets                                           *)

\* C26: no url is held both as a processed and as a rejected article
C26_ProcessedRejectedDisjoint == db.processed \cap db.rejected = {}

\* C28: once the batch has returned, the url of every article counted in
\* stored_articles is among the urls the store knows
C28_StoredUrlsKnown ==
    (pc = "returned" /\ stats.stored_articles > 0) =>
        /\ stats.stored_articles = Len(processed_articles)
        /\ UrlsOf(processed_articles) \subseteq get_processed_urls(db)


-----------------------------------------------------------------------------
(* Properties of the domains that failed max_failures_per_domain times      *)

\* number of extractions of the domain that have failed in the fetch under way
FailedExtractions(domain) ==
    Cardinality({i \in DOMAIN extractLog : /\ extractLog[i].domain = domain
                                           /\ extractLog[i].failed})

\* the domains for which max_failures_per_domain (5) extractions have failed
\* in the fetch under way
TrippedInBatch ==
    {domain \in {extractLog[i].domain : i \in DOMAIN extractLog} :
        FailedExtractions(domain) >= DefaultMaxFailures}

\* the articles the connector holds when its loops are over
AcceptedArticles == fetch.danish_all \o fetch.english_all

NoArticleOfSkippedDomain ==
    (pc = "fetching" /\ fetch.phase = "done") =>
        \A i \in DOMAIN AcceptedArticles :
            ~should_skip_domain(tracker, UrlDomain(AcceptedArticles[i].url))

StatsReportTrackerSet ==
    [][ (pc = "fetching" /\ pc' # "fetching") =>
            /\ tracker.failed_domains = {}
            /\ stats'.failed_domains = tracker.failed_domains
            /\ stats'.domain_failure_count = Cardinality(tracker.failed_domains) ]_vars

-----------------------------------------------------------------------------
(* Properties of the dashboard's pipeline control                           *)

\* no session is inside _start_pipeline_subprocess or _stop_pipeline_subprocess
NoCallUnderWay == \A s \in Sessions : sessions[s].pc \in {"render", "shown"}

\* C30: at most one pipeline subprocess is running at any time, and between
\* the calls of the sessions the PID file names the one that is running
C30_SingleSubprocess ==
    /\ Cardinality(running_pids) <= 1
    /\ (NoCallUnderWay /\ running_pids # {}) => pid_file \in running_pids

=========================================================================
